---------------------------- MODULE Spec2Model ----------------------------
(***************************************************************************)
(* Annotation burning engine of OpenAssess.                                *)
(*                                                                         *)
(*   backend/app/services/pdf_annotation_service.py  PdfAnnotationService  *)
(*   backend/app/routers/export.py                   the bulk-export burn  *)
(*                                                                         *)
(* Numbers.  The Python code computes in binary floating point.  The model *)
(* computes in exact rational arithmetic: a number is a pair <<n, d>> in   *)
(* lowest terms with d > 0.  Every coordinate the burn stores is a dyadic  *)
(* rational (a bisection parameter is k / 2^max_iter), so the stored       *)
(* values are exact in both worlds; the model leaves out only the rounding *)
(* of intermediate float products.  TLC integers are 32 bits wide, which   *)
(* is why the bisection cap MaxIter is scaled down from the source's 18.   *)
(***************************************************************************)
EXTENDS Integers, Sequences, FiniteSets, TLC

(***************************************************************************)
(* Bounds of the model.                                                    *)
(***************************************************************************)
\* iterations of one bisection (max_iter, 18 in the source, scaled down)
MaxIter == 3
\* strokes in one page's timeline
MaxLines == 3
\* annotation records in one burn of the multi-record inputs
MaxRecords == 2
\* annotation files in the folder of one student
MaxFiles == 2

(***************************************************************************)
(* Exact rational arithmetic.                                              *)
(***************************************************************************)
RECURSIVE GCD(_, _)
GCD(a, b) == IF b = 0 THEN a ELSE GCD(b, a % b)

IAbs(n) == IF n < 0 THEN -n ELSE n

\* n/d in lowest terms, d > 0  (g is the gcd of n and d)
NormBy(n, d, g) ==
    IF d < 0 THEN <<-(n \div g), (-d) \div g>> ELSE <<n \div g, d \div g>>

Norm(n, d) == NormBy(n, d, GCD(IAbs(n), IAbs(d)))

R(n) == <<n, 1>>
Zero == <<0, 1>>
One == <<1, 1>>
\* float("inf")
Inf == <<1, 0>>
\* what a float division by zero leaves behind (Python raises ZeroDivisionError)
DivZero == <<0, 0>>

RNeg(x) == <<-x[1], x[2]>>
RAbs(x) == <<IAbs(x[1]), x[2]>>

\* g is the gcd of the denominators
RAddBy(x, y, g) ==
    Norm(x[1] * (y[2] \div g) + y[1] * (x[2] \div g), (x[2] \div g) * y[2])

RAdd(x, y) == RAddBy(x, y, GCD(x[2], y[2]))

RSub(x, y) == RAdd(x, RNeg(y))

\* cancel across before multiplying: g1 = gcd(x.n, y.d), g2 = gcd(y.n, x.d)
RMulBy(x, y, g1, g2) ==
    <<(x[1] \div g1) * (y[1] \div g2), (x[2] \div g2) * (y[2] \div g1)>>

RMul(x, y) == RMulBy(x, y, GCD(IAbs(x[1]), y[2]), GCD(IAbs(y[1]), x[2]))

RDiv(x, y) ==
    IF y[1] = 0 THEN DivZero
    ELSE RMul(x, IF y[1] < 0 THEN <<-y[2], -y[1]>> ELSE <<y[2], y[1]>>)

\* x < y, x <= y; Inf is larger than every number
RLt(x, y) ==
    IF x = Inf THEN FALSE
    ELSE IF y = Inf THEN TRUE
    ELSE RSub(x, y)[1] < 0
RLe(x, y) == ~RLt(y, x)
RMin(x, y) == IF RLt(y, x) THEN y ELSE x
RMax(x, y) == IF RLt(x, y) THEN y ELSE x

\* Python's int(x): truncation towards zero
Trunc(x) == IF x[1] >= 0 THEN x[1] \div x[2] ELSE -((-x[1]) \div x[2])

\* x < 1e-12 .  Every number of the model has a denominator below 2^31, so a
\* positive one is at least 2^-31 > 1e-12: the test is "x <= 0".
LtTiny(x) == x[1] <= 0
\* abs(x) < 1e-12
AbsLtTiny(x) == x[1] = 0

\* abs(x) < 1e-6, exactly: |n|/d < 1/10^6  iff  |n| * 10^6 < d
LtMicro(x) == IAbs(x[1]) <= (x[2] - 1) \div 1000000

(***************************************************************************)
(* Geometry utilities  (pdf_annotation_service.py 81-202)                  *)
(***************************************************************************)
dot(ax, ay, bx, by) == RAdd(RMul(ax, bx), RMul(ay, by))

clamp01(t) == IF RLt(t, Zero) THEN Zero ELSE IF RLt(One, t) THEN One ELSE t

\* Min squared distance between segments AB and CD (lines 117-186), in stages:
\* each stage is one block of the function and hands its locals to the next.

\* lines 137-156: <<sN, sD, tN, tD>> after the first block
D2First(a, b, c, d, e, D) ==
    IF LtTiny(D) THEN <<Zero, One, e, c>>
    ELSE IF RLt(RSub(RMul(b, e), RMul(c, d)), Zero) THEN <<Zero, D, e, c>>
    ELSE IF RLt(D, RSub(RMul(b, e), RMul(c, d))) THEN <<D, D, RAdd(e, b), c>>
    ELSE <<RSub(RMul(b, e), RMul(c, d)), D, RSub(RMul(a, e), RMul(b, d)), D>>

\* lines 158-175: <<sN, sD, tN, tD>> after the second block
D2Second(s, a, nd, ndb) ==
    IF RLt(s[3], Zero)
    THEN IF RLt(nd, Zero) THEN <<Zero, s[2], Zero, s[4]>>
         ELSE IF RLt(a, nd) THEN <<s[2], s[2], Zero, s[4]>>
         ELSE <<nd, a, Zero, s[4]>>
    ELSE IF RLt(s[4], s[3])
    THEN IF RLt(ndb, Zero) THEN <<Zero, s[2], s[4], s[4]>>
         ELSE IF RLt(a, ndb) THEN <<s[2], s[2], s[4], s[4]>>
         ELSE <<ndb, a, s[4], s[4]>>
    ELSE s

\* lines 177-178: <<sc, tc>>
D2Params(s) ==
    <<IF AbsLtTiny(s[1]) THEN Zero ELSE RDiv(s[1], s[2]),
      IF AbsLtTiny(s[3]) THEN Zero ELSE RDiv(s[3], s[4])>>

Sq(x) == RMul(x, x)

\* lines 181-186: the squared distance of the two closest points
D2Closest(ax, ay, ux, uy, cx, cy, vx, vy, st) ==
    IF st[1] = DivZero \/ st[2] = DivZero THEN DivZero
    ELSE RAdd(Sq(RSub(RAdd(ax, RMul(st[1], ux)), RAdd(cx, RMul(st[2], vx)))),
              Sq(RSub(RAdd(ay, RMul(st[1], uy)), RAdd(cy, RMul(st[2], vy)))))

\* lines 130-135 on: a, b, c, d, e known
D2Dots(ax, ay, ux, uy, cx, cy, vx, vy, a, b, c, d, e) ==
    D2Closest(ax, ay, ux, uy, cx, cy, vx, vy,
              D2Params(D2Second(D2First(a, b, c, d, e, RSub(RMul(a, c), RMul(b, b))),
                                a, RNeg(d), RAdd(RNeg(d), b))))

\* lines 126-128 on: u, v, w known
D2Vectors(ax, ay, ux, uy, cx, cy, vx, vy, wx, wy) ==
    D2Dots(ax, ay, ux, uy, cx, cy, vx, vy,
           dot(ux, uy, ux, uy), dot(ux, uy, vx, vy), dot(vx, vy, vx, vy),
           dot(ux, uy, wx, wy), dot(vx, vy, wx, wy))

dist2_seg_to_seg(ax, ay, bx, by, cx, cy, dx, dy) ==
    D2Vectors(ax, ay, RSub(bx, ax), RSub(by, ay), cx, cy, RSub(dx, cx), RSub(dy, cy),
              RSub(ax, cx), RSub(ay, cy))

\* an AABB is <<minx, miny, maxx, maxy>>
aabb_inflate(aabb, r) ==
    <<RSub(aabb[1], r), RSub(aabb[2], r), RAdd(aabb[3], r), RAdd(aabb[4], r)>>

seg_aabb(ax, ay, bx, by) == <<RMin(ax, bx), RMin(ay, by), RMax(ax, bx), RMax(ay, by)>>

aabb_overlap(a, b) ==
    ~(RLt(a[3], b[1]) \/ RLt(b[3], a[1]) \/ RLt(a[4], b[2]) \/ RLt(b[4], a[2]))

(***************************************************************************)
(* Capsule geometry  (pdf_annotation_service.py 208-226)                   *)
(***************************************************************************)
Capsule(ax, ay, bx, by, r) ==
    [ax |-> ax, ay |-> ay, bx |-> bx, by |-> by, r |-> r,
     aabb |-> aabb_inflate(seg_aabb(ax, ay, bx, by), r)]

\* for i in range(0, len(pts) - 3, 2): one capsule per consecutive point pair
build_capsules(pts, r) ==
    [k \in 1..(IF Len(pts) - 3 <= 0 THEN 0 ELSE (Len(pts) - 3 + 1) \div 2) |->
        Capsule(pts[2 * k - 1], pts[2 * k], pts[2 * k + 1], pts[2 * k + 2], r)]

(***************************************************************************)
(* Spatial indexing  (pdf_annotation_service.py 232-271)                   *)
(* buckets is indexed from 0 as in the source; capsule indices are the     *)
(* source's idx + 1 (TLA+ sequences start at 1).                           *)
(***************************************************************************)
IMax(a, b) == IF a < b THEN b ELSE a

GridCells(minx, miny, cell, nx, ny) ==
    [minx |-> minx, miny |-> miny, cell |-> cell, nx |-> nx, ny |-> ny,
     buckets |-> [c \in 0..(nx * ny - 1) |-> <<>>]]

UniformGrid(minx, miny, maxx, maxy, cell) ==
    GridCells(minx, miny, cell,
              IMax(1, Trunc(RDiv(RSub(maxx, minx), cell))),
              IMax(1, Trunc(RDiv(RSub(maxy, miny), cell))))

\* 0 if i < 0 else (n - 1 if i >= n else i)
ClampIndex(i, n) == IF i < 0 THEN 0 ELSE IF i >= n THEN n - 1 ELSE i

ixiy(grid, x, y) ==
    <<ClampIndex(Trunc(RDiv(RSub(x, grid.minx), grid.cell)), grid.nx),
      ClampIndex(Trunc(RDiv(RSub(y, grid.miny), grid.cell)), grid.ny)>>

\* the loops of insert_capsule over the cells i0..i1
InsertCells(grid, idx, i0, i1) ==
    [grid EXCEPT !.buckets =
        [c \in DOMAIN grid.buckets |->
            IF \E ix \in i0[1]..i1[1], iy \in i0[2]..i1[2] : c = iy * grid.nx + ix
            THEN Append(grid.buckets[c], idx)
            ELSE grid.buckets[c]]]

\* insert_capsule that fills only the cell of the AABB's first corner
insert_capsule_corner(grid, idx, aabb) ==
    InsertCells(grid, idx, ixiy(grid, aabb[1], aabb[2]), ixiy(grid, aabb[1], aabb[2]))

insert_capsule(grid, idx, aabb) ==
    InsertCells(grid, idx, ixiy(grid, aabb[1], aabb[2]), ixiy(grid, aabb[3], aabb[4]))

\* the sequence of items of s that are not in seen and not earlier in s
RECURSIVE Unseen(_, _)
Unseen(s, seen) ==
    IF s = <<>> THEN <<>>
    ELSE IF Head(s) \in seen THEN Unseen(Tail(s), seen)
    ELSE <<Head(s)>> \o Unseen(Tail(s), seen \cup {Head(s)})

\* the cells of the query in loop order: for ix: for iy
RECURSIVE CellsOf(_, _, _, _, _)
CellsOf(nx, ix, ix1, iy0, iy1) ==
    IF ix > ix1 THEN <<>>
    ELSE [k \in 1..IMax(0, iy1 - iy0 + 1) |-> (iy0 + k - 1) * nx + ix]
         \o CellsOf(nx, ix + 1, ix1, iy0, iy1)

RECURSIVE Concat(_, _)
Concat(buckets, cells) ==
    IF cells = <<>> THEN <<>>
    ELSE buckets[Head(cells)] \o Concat(buckets, Tail(cells))

CandidatesIn(grid, i0, i1) ==
    Unseen(Concat(grid.buckets, CellsOf(grid.nx, i0[1], i1[1], i0[2], i1[2])), {})

\* the capsule indices yielded, in the order the generator yields them
candidates_for_aabb(grid, aabb) ==
    CandidatesIn(grid, ixiy(grid, aabb[1], aabb[2]), ixiy(grid, aabb[3], aabb[4]))

(***************************************************************************)
(* Eraser collision detection  (pdf_annotation_service.py 277-324)         *)
(***************************************************************************)
\* MinusR2 with the eraser width in place of its radius
MinusWidth2(d2, r) == IF d2 = DivZero THEN DivZero ELSE RSub(d2, RMul(RMul(R(2), r), RMul(R(2), r)))

\* d2 - cap.r * cap.r
MinusR2(d2, r) == IF d2 = DivZero THEN DivZero ELSE RSub(d2, RMul(r, r))

seg_capsule_dist2(ax, ay, bx, by, cap) ==
    MinusR2(dist2_seg_to_seg(ax, ay, bx, by, cap.ax, cap.ay, cap.bx, cap.by), cap.r)

\* max(c.r for c in capsules) if capsules else 0.0
RECURSIVE MaxR(_)
MaxR(capsules) ==
    IF capsules = <<>> THEN Zero
    ELSE IF Len(capsules) = 1 THEN capsules[1].r
    ELSE RMax(capsules[1].r, MaxR(Tail(capsules)))

\* the segment's AABB inflated by the largest radius (lines 296-297, 316-317)
QueryAabb(ax, ay, bx, by, capsules) ==
    aabb_inflate(seg_aabb(ax, ay, bx, by), MaxR(capsules))

\* lines 298-303
RECURSIVE HitsLoop(_, _, _, _, _, _, _)
HitsLoop(ax, ay, bx, by, capsules, aabb, cand) ==
    IF cand = <<>> THEN FALSE
    ELSE IF aabb_overlap(aabb, capsules[Head(cand)].aabb)
            /\ RLe(seg_capsule_dist2(ax, ay, bx, by, capsules[Head(cand)]), Zero)
    THEN TRUE
    ELSE HitsLoop(ax, ay, bx, by, capsules, aabb, Tail(cand))

HitsIn(ax, ay, bx, by, capsules, grid, aabb) ==
    HitsLoop(ax, ay, bx, by, capsules, aabb, candidates_for_aabb(grid, aabb))

seg_hits_any_capsule(ax, ay, bx, by, capsules, grid) ==
    HitsIn(ax, ay, bx, by, capsules, grid, QueryAabb(ax, ay, bx, by, capsules))

\* lines 318-324: best is the minimum so far, nb the minimum with this candidate
RECURSIVE DistLoop(_, _, _, _, _, _, _, _)
RECURSIVE DistStep(_, _, _, _, _, _, _, _)
DistStep(ax, ay, bx, by, capsules, aabb, cand, nb) ==
    IF RLe(nb, Zero) THEN nb
    ELSE DistLoop(ax, ay, bx, by, capsules, aabb, Tail(cand), nb)

DistLoop(ax, ay, bx, by, capsules, aabb, cand, best) ==
    IF cand = <<>> THEN best
    ELSE IF aabb_overlap(aabb, capsules[Head(cand)].aabb)
    THEN DistStep(ax, ay, bx, by, capsules, aabb, cand,
                  RMin(best, seg_capsule_dist2(ax, ay, bx, by, capsules[Head(cand)])))
    ELSE DistLoop(ax, ay, bx, by, capsules, aabb, Tail(cand), best)

DistIn(ax, ay, bx, by, capsules, grid, aabb) ==
    DistLoop(ax, ay, bx, by, capsules, aabb, candidates_for_aabb(grid, aabb), Inf)

\* minimum (distance^2 - r^2) over the candidate capsules; <= 0: inside
seg_distance2_to_eraser(ax, ay, bx, by, capsules, grid) ==
    DistIn(ax, ay, bx, by, capsules, grid, QueryAabb(ax, ay, bx, by, capsules))

(***************************************************************************)
(* Line splitting  (pdf_annotation_service.py 330-456)                     *)
(* A point is <<x, y>>; a piece is <<q0, q1>>.                             *)
(***************************************************************************)
inside_point(pt, capsules, grid) ==
    RLe(seg_distance2_to_eraser(pt[1], pt[2], pt[1], pt[2], capsules, grid), Zero)

Half == <<1, 2>>

\* a + t * (b - a), on both coordinates
Lerp(a, b, t) ==
    <<RAdd(a[1], RMul(t, RSub(b[1], a[1]))), RAdd(a[2], RMul(t, RSub(b[2], a[2])))>>

\* lines 376-386: n iterations left, bracket [lo, hi] on a -> b; t is its middle
RECURSIVE BisectLoop(_, _, _, _, _, _, _)
RECURSIVE BisectStep(_, _, _, _, _, _, _, _)
BisectStep(n, lo, hi, a, b, capsules, grid, t) ==
    IF inside_point(Lerp(a, b, t), capsules, grid)
    THEN BisectLoop(n - 1, lo, t, a, b, capsules, grid)
    ELSE BisectLoop(n - 1, t, hi, a, b, capsules, grid)

BisectLoop(n, lo, hi, a, b, capsules, grid) ==
    IF n = 0 THEN hi
    ELSE BisectStep(n, lo, hi, a, b, capsules, grid, RMul(RAdd(lo, hi), Half))

\* lines 376-385: the values of t the loop probes, one per iteration
RECURSIVE BisectProbes(_, _, _, _, _, _, _)
RECURSIVE BisectProbesEarlyExit(_, _, _, _, _, _, _)

BisectProbesAt(n, lo, hi, a, b, capsules, grid, t) ==
    <<t>> \o (IF inside_point(Lerp(a, b, t), capsules, grid)
              THEN BisectProbes(n - 1, lo, t, a, b, capsules, grid)
              ELSE BisectProbes(n - 1, t, hi, a, b, capsules, grid))

\* BisectProbes with a loop that ends at the first probe inside the eraser
BisectProbesEarlyExit(n, lo, hi, a, b, capsules, grid) ==
    IF n = 0 THEN <<>>
    ELSE IF inside_point(Lerp(a, b, RMul(RAdd(lo, hi), Half)), capsules, grid)
    THEN <<RMul(RAdd(lo, hi), Half)>>
    ELSE BisectProbesAt(n, lo, hi, a, b, capsules, grid, RMul(RAdd(lo, hi), Half))

BisectProbes(n, lo, hi, a, b, capsules, grid) ==
    IF n = 0 THEN <<>>
    ELSE BisectProbesAt(n, lo, hi, a, b, capsules, grid, RMul(RAdd(lo, hi), Half))

\* lines 389-407: the pairs split_segment_against_eraser hands to bisect_boundary
SplitBisections(p0, p1, capsules, grid) ==
    IF RLt(Zero, seg_distance2_to_eraser(p0[1], p0[2], p1[1], p1[2], capsules, grid))
    THEN <<>>
    ELSE IF inside_point(p0, capsules, grid) /\ inside_point(p1, capsules, grid) THEN <<>>
    ELSE IF inside_point(p0, capsules, grid) # inside_point(p1, capsules, grid)
    THEN <<<<p0, p1>>>>
    ELSE IF ~seg_hits_any_capsule(p0[1], p0[2], p1[1], p1[2], capsules, grid) THEN <<>>
    ELSE <<<<p0, p1>>, <<p1, p0>>>>

\* lines 376-387 on the ordered pair a -> b
BisectFrom(a, b, capsules, grid, max_iter) ==
    Lerp(a, b, BisectLoop(max_iter, Zero, One, a, b, capsules, grid))

\* lines 369-375: swap when a is inside and b is not
BisectOrdered(a, b, capsules, grid, max_iter, swap) ==
    IF swap THEN BisectFrom(b, a, capsules, grid, max_iter)
    ELSE BisectFrom(a, b, capsules, grid, max_iter)

bisect_boundary(a, b, capsules, grid, max_iter) ==
    BisectOrdered(a, b, capsules, grid, max_iter,
                  inside_point(a, capsules, grid) /\ ~inside_point(b, capsules, grid))

\* SplitKept with the clipped piece running from the boundary to p0 when p1 is inside
SplitKeptReversed(p0, p1, capsules, grid, max_iter, a_inside, b_inside) ==
    IF a_inside /\ b_inside THEN <<>>
    ELSE IF a_inside THEN <<<<bisect_boundary(p0, p1, capsules, grid, max_iter), p1>>>>
    ELSE IF b_inside THEN <<<<bisect_boundary(p0, p1, capsules, grid, max_iter), p0>>>>
    ELSE IF ~seg_hits_any_capsule(p0[1], p0[2], p1[1], p1[2], capsules, grid)
    THEN <<<<p0, p1>>>>
    ELSE <<<<p0, bisect_boundary(p0, p1, capsules, grid, max_iter)>>,
           <<bisect_boundary(p1, p0, capsules, grid, max_iter), p1>>>>

\* SplitKept without the test for both ends inside
SplitKeptClipsOnly(p0, p1, capsules, grid, max_iter, a_inside, b_inside) ==
    IF a_inside THEN <<<<bisect_boundary(p0, p1, capsules, grid, max_iter), p1>>>>
    ELSE IF b_inside THEN <<<<p0, bisect_boundary(p0, p1, capsules, grid, max_iter)>>>>
    ELSE IF ~seg_hits_any_capsule(p0[1], p0[2], p1[1], p1[2], capsules, grid)
    THEN <<<<p0, p1>>>>
    ELSE <<<<p0, bisect_boundary(p0, p1, capsules, grid, max_iter)>>,
           <<bisect_boundary(p1, p0, capsules, grid, max_iter), p1>>>>

\* lines 389-408: the endpoints are classified, not both inside
SplitKept(p0, p1, capsules, grid, max_iter, a_inside, b_inside) ==
    IF a_inside /\ b_inside THEN <<>>
    ELSE IF a_inside THEN <<<<bisect_boundary(p0, p1, capsules, grid, max_iter), p1>>>>
    ELSE IF b_inside THEN <<<<p0, bisect_boundary(p0, p1, capsules, grid, max_iter)>>>>
    ELSE IF ~seg_hits_any_capsule(p0[1], p0[2], p1[1], p1[2], capsules, grid)
    THEN <<<<p0, p1>>>>
    ELSE <<<<p0, bisect_boundary(p0, p1, capsules, grid, max_iter)>>,
           <<bisect_boundary(p1, p0, capsules, grid, max_iter), p1>>>>

split_segment_against_eraser(p0, p1, capsules, grid, max_iter) ==
    IF RLt(Zero, seg_distance2_to_eraser(p0[1], p0[2], p1[1], p1[2], capsules, grid))
    THEN <<<<p0, p1>>>>
    ELSE SplitKept(p0, p1, capsules, grid, max_iter,
                   inside_point(p0, capsules, grid), inside_point(p1, capsules, grid))

\* flush_current: out_segments after the call (current becomes empty)
flush_current(out_segments, current) ==
    IF Len(current) >= 4 THEN Append(out_segments, current) ELSE out_segments

\* lines 443-453 for one piece (q0, q1): <<out_segments, current>> after it
AddPiece(out_segments, current, q0, q1) ==
    IF current = <<>> THEN <<out_segments, <<q0[1], q0[2], q1[1], q1[2]>>>>
    ELSE IF LtMicro(RSub(current[Len(current) - 1], q0[1]))
            /\ LtMicro(RSub(current[Len(current)], q0[2]))
    THEN <<out_segments, current \o <<q1[1], q1[2]>>>>
    ELSE <<flush_current(out_segments, current), <<q0[1], q0[2], q1[1], q1[2]>>>>

\* the inner loop "for (q0, q1) in pieces" on the state st = <<out_segments, current>>
RECURSIVE PiecesLoop(_, _)
PiecesLoop(pieces, st) ==
    IF pieces = <<>> THEN st
    ELSE PiecesLoop(Tail(pieces), AddPiece(st[1], st[2], Head(pieces)[1], Head(pieces)[2]))

\* lines 438-453 for the pieces of one segment
AfterPieces(pieces, st) ==
    IF pieces = <<>> THEN <<flush_current(st[1], st[2]), <<>>>>
    ELSE PiecesLoop(pieces, st)

\* the outer loop "for i in range(len(pts) - 1)", from segment i on
RECURSIVE SegmentsLoop(_, _, _, _, _, _)
SegmentsLoop(line, i, capsules, grid, max_iter, st) ==
    IF 2 * i + 2 > Len(line) THEN st
    ELSE SegmentsLoop(line, i + 1, capsules, grid, max_iter,
            AfterPieces(split_segment_against_eraser(
                            <<line[2 * i - 1], line[2 * i]>>,
                            <<line[2 * i + 1], line[2 * i + 2]>>,
                            capsules, grid, max_iter),
                        st))

\* line 455-456: the last flush
LastFlush(st) == flush_current(st[1], st[2])

\* the surviving polylines of one polyline, each flat <<x0, y0, x1, y1, ...>>
filter_line_by_eraser_px(line_points_px, eraser_capsules, grid, max_iter) ==
    IF eraser_capsules = <<>> THEN <<line_points_px>>
    ELSE LastFlush(SegmentsLoop(line_points_px, 1, eraser_capsules, grid, max_iter,
                                <<<<>>, <<>>>>))

(***************************************************************************)
(* Colour and coordinate conversion  (pdf_annotation_service.py 45-75)     *)
(* A colour string is a sequence of one-character strings.                 *)
(***************************************************************************)
HexDigits == <<"0", "1", "2", "3", "4", "5", "6", "7", "8", "9",
               "a", "b", "c", "d", "e", "f">>

\* str.lower() on the letters the model's colour strings use
Lower(ch) ==
    CASE ch = "A" -> "a" [] ch = "B" -> "b" [] ch = "C" -> "c" [] ch = "D" -> "d"
      [] ch = "E" -> "e" [] ch = "F" -> "f" [] ch = "R" -> "r" [] OTHER -> ch

LowerStr(str) == [i \in 1..Len(str) |-> Lower(str[i])]

\* the value of one hexadecimal digit, -1 when the character is none
HexVal(ch) ==
    IF \E i \in 1..16 : HexDigits[i] = Lower(ch)
    THEN (CHOOSE i \in 1..16 : HexDigits[i] = Lower(ch)) - 1
    ELSE -1

NAMED_COLORS ==
    << <<<<"b", "l", "a", "c", "k">>, <<"#", "0", "0", "0", "0", "0", "0">>>>,
       <<<<"w", "h", "i", "t", "e">>, <<"#", "f", "f", "f", "f", "f", "f">>>>,
       <<<<"r", "e", "d">>, <<"#", "f", "f", "0", "0", "0", "0">>>>,
       <<<<"g", "r", "e", "e", "n">>, <<"#", "0", "0", "f", "f", "0", "0">>>>,
       <<<<"b", "l", "u", "e">>, <<"#", "0", "0", "0", "0", "f", "f">>>>,
       <<<<"y", "e", "l", "l", "o", "w">>, <<"#", "f", "f", "f", "f", "0", "0">>>>,
       <<<<"c", "y", "a", "n">>, <<"#", "0", "0", "f", "f", "f", "f">>>>,
       <<<<"m", "a", "g", "e", "n", "t", "a">>, <<"#", "f", "f", "0", "0", "f", "f">>>> >>

\* NAMED_COLORS.get(name, "#000000")
NamedGet(name) ==
    IF \E i \in 1..Len(NAMED_COLORS) : NAMED_COLORS[i][1] = name
    THEN NAMED_COLORS[CHOOSE i \in 1..Len(NAMED_COLORS) : NAMED_COLORS[i][1] = name][2]
    ELSE <<"#", "0", "0", "0", "0", "0", "0">>

\* str.lstrip("#")
RECURSIVE LStripHash(_)
LStripHash(str) ==
    IF str # <<>> /\ Head(str) = "#" THEN LStripHash(Tail(str)) ELSE str

\* int(color[i : i + 2], 16) for the 0-based offset i; -1 stands for ValueError
\* (an empty slice or a character that is no hexadecimal digit)
IntBase16(sl) ==
    IF sl = <<>> \/ \E k \in 1..Len(sl) : HexVal(sl[k]) = -1 THEN -1
    ELSE IF Len(sl) = 1 THEN HexVal(sl[1])
    ELSE 16 * HexVal(sl[1]) + HexVal(sl[2])

HexPair(str, i) ==
    IntBase16(SubSeq(str, i + 1, IF i + 2 <= Len(str) THEN i + 2 ELSE Len(str)))

\* what hex_to_rgb returns in place of a tuple when int() raises ValueError
ValueError == <<>>

\* the RGB tuple, or ValueError
\* line 61 on the three parsed pairs
RgbOf(v) ==
    IF \E k \in 1..3 : v[k] = -1 THEN ValueError
    ELSE <<Norm(v[1], 255), Norm(v[2], 255), Norm(v[3], 255)>>

\* lines 60-61 on the "#..." string
RgbOfHex(color) == RgbOf(<<HexPair(color, 0), HexPair(color, 2), HexPair(color, 4)>>)

hex_to_rgb(color) ==
    RgbOfHex(LStripHash(IF color # <<>> /\ Head(color) = "#" THEN color
                        ELSE NamedGet(LowerStr(color))))

percentage_to_pdf_coords(x_percent, y_percent, page_width, page_height) ==
    <<RMul(RDiv(x_percent, R(100)), page_width),
      RMul(RDiv(y_percent, R(100)), page_height)>>

(***************************************************************************)
(* Python dictionaries are records; a missing key is a missing field.      *)
(***************************************************************************)
Has(dict, key) == key \in DOMAIN dict
Get(dict, key, default) == IF key \in DOMAIN dict THEN dict[key] ELSE default

(***************************************************************************)
(* Eraser width policy  (pdf_annotation_service.py 26-31, 508-520)         *)
(***************************************************************************)
ERASER_MIN_WIDTH_PERCENT == <<4, 5>>
ERASER_MAX_WIDTH_PERCENT == <<4, 1>>
ERASER_DEFAULT_WIDTH_PERCENT == <<3, 2>>
ERASER_SCALE_FACTOR == <<7, 10>>
ASSUMED_PAGE_WIDTH_PX == 600
\* e.get("strokeWidth", 10)
DefaultEraserStroke == 10

\* the tool value that marks an eraser stroke in the service
EraserTool == "fine-eraser"

RECURSIVE SumStroke(_)
SumStroke(erasers) ==
    IF erasers = <<>> THEN 0
    ELSE Get(Head(erasers), "strokeWidth", DefaultEraserStroke) + SumStroke(Tail(erasers))

\* WidthPercentOf without the clamp
WidthPercentUnclamped(erasers) ==
    IF erasers # <<>>
    THEN RMul(RMul(RDiv(Norm(SumStroke(erasers), Len(erasers)),
                        R(ASSUMED_PAGE_WIDTH_PX)),
                   R(100)),
              ERASER_SCALE_FACTOR)
    ELSE ERASER_DEFAULT_WIDTH_PERCENT

\* the clamp of lines 512-516 on the eraser strokes of the page
WidthPercentOf(erasers) ==
    IF erasers # <<>>
    THEN RMax(ERASER_MIN_WIDTH_PERCENT,
              RMin(ERASER_MAX_WIDTH_PERCENT,
                   RMul(RMul(RDiv(Norm(SumStroke(erasers), Len(erasers)),
                                  R(ASSUMED_PAGE_WIDTH_PX)),
                             R(100)),
                        ERASER_SCALE_FACTOR)))
    ELSE ERASER_DEFAULT_WIDTH_PERCENT

IsFineEraser(line) == Get(line, "tool", "None") = EraserTool

eraser_width_percent(lines) == WidthPercentOf(SelectSeq(lines, IsFineEraser))

\* r_px = (eraser_width_percent / 100.0) * page_width * 0.5
RadiusPx(width_percent, page_width) ==
    RMul(RMul(RDiv(width_percent, R(100)), page_width), Half)

(***************************************************************************)
(* The stroke timeline  (pdf_annotation_service.py 526-569)                *)
(***************************************************************************)
\* lines 534-537: percent points to page space (an even number of coordinates;
\* with an odd number pts[i + 1] raises IndexError, see LineRaises)
ConvertPoints(pts, page_) ==
    [k \in 1..Len(pts) |->
        IF k % 2 = 1
        THEN percentage_to_pdf_coords(R(pts[k]), R(pts[k + 1]), page_.width, page_.height)[1]
        ELSE percentage_to_pdf_coords(R(pts[k - 1]), R(pts[k]), page_.width, page_.height)[2]]

RECURSIVE InsertAll(_, _, _)
InsertAll(grid, capsules, idx) ==
    IF idx > Len(capsules) THEN grid
    ELSE InsertAll(insert_capsule(grid, idx, capsules[idx].aabb), capsules, idx + 1)

\* lines 544-547: the grid of one eraser stroke
GridOf(capsules, r_px_, page_) ==
    InsertAll(UniformGrid(Zero, Zero, page_.width, page_.height, RMax(R(8), r_px_)),
              capsules, 1)

\* lines 552-556: the surviving polylines of one entry's polylines
RECURSIVE FilterSegments(_, _, _, _)
FilterSegments(segments, capsules, grid, max_iter) ==
    IF segments = <<>> THEN <<>>
    ELSE filter_line_by_eraser_px(Head(segments), capsules, grid, max_iter)
         \o FilterSegments(Tail(segments), capsules, grid, max_iter)

\* KeepEntry without the test: an entry stays when nothing of it survives
KeepEntryAlways(entry, new_segments) ==
    <<[entry EXCEPT !.segments = new_segments]>>

\* lines 558-560: only keep the line if it still has segments
KeepEntry(entry, new_segments) ==
    IF new_segments # <<>> THEN <<[entry EXCEPT !.segments = new_segments]>> ELSE <<>>

\* lines 550-562: the working list after one eraser stroke.  An entry is
\* (stroke_color, stroke_width, segments); src is the position of its ink
\* stroke in lines, which the source does not keep.
RECURSIVE ErasePass(_, _, _, _)
ErasePass(processed, capsules, grid, max_iter) ==
    IF processed = <<>> THEN <<>>
    ELSE KeepEntry(Head(processed),
                   FilterSegments(Head(processed).segments, capsules, grid, max_iter))
         \o ErasePass(Tail(processed), capsules, grid, max_iter)

ErasePassWith(processed, eraser_capsules, r_px_, page_) ==
    ErasePass(processed, eraser_capsules, GridOf(eraser_capsules, r_px_, page_), MaxIter)

\* lines 540-562 for the eraser stroke pts_px
ApplyEraser(processed, pts_px, r_px_, page_) ==
    ErasePassWith(processed, build_capsules(pts_px, r_px_), r_px_, page_)

\* what one iteration of "for line_item in lines" raises, "none" when nothing
LineRaises(line_item, page_) ==
    IF ~Has(line_item, "points") THEN "KeyError"
    ELSE IF Len(line_item.points) % 2 = 1 THEN "IndexError"
    ELSE IF Get(line_item, "tool", "pencil") = EraserTool THEN "none"
    ELSE IF ~Has(line_item, "stroke") THEN "KeyError"
    ELSE IF hex_to_rgb(line_item.stroke) = ValueError THEN "ValueError"
    ELSE IF ~Has(line_item, "strokeWidth") THEN "KeyError"
    ELSE "none"

\* lines 539-569: the working list after one iteration that does not raise
LineStep(line_item, src, processed, r_px_, page_) ==
    IF Get(line_item, "tool", "pencil") = EraserTool
    THEN ApplyEraser(processed, ConvertPoints(line_item.points, page_), r_px_, page_)
    ELSE Append(processed,
                [color |-> hex_to_rgb(line_item.stroke),
                 width |-> line_item.strokeWidth,
                 segments |-> <<ConvertPoints(line_item.points, page_)>>,
                 src |-> src])

(***************************************************************************)
(* Page rendering  (pdf_annotation_service.py 571-607)                     *)
(* A mark is what one PyMuPDF call puts on the page.                        *)
(***************************************************************************)
\* DrawPolyline with the segment loop ending one segment early
DrawPolylineShort(segment_points, color, width) ==
    IF Len(segment_points) < 4 THEN <<>>
    ELSE [k \in 1..((Len(segment_points) - 4) \div 2) |->
            [kind |-> "line",
             p1 |-> <<segment_points[2 * k - 1], segment_points[2 * k]>>,
             p2 |-> <<segment_points[2 * k + 1], segment_points[2 * k + 2]>>,
             color |-> color, width |-> R(width)]]
         \o
         [k \in 1..(Len(segment_points) \div 2) |->
            [kind |-> "circle",
             p |-> <<segment_points[2 * k - 1], segment_points[2 * k]>>,
             radius |-> RMul(R(width), <<1, 4>>), color |-> color]]

\* lines 577-586: one polyline: its segments, then a joint circle per vertex
DrawPolyline(segment_points, color, width) ==
    IF Len(segment_points) < 4 THEN <<>>
    ELSE [k \in 1..((Len(segment_points) - 2) \div 2) |->
            [kind |-> "line",
             p1 |-> <<segment_points[2 * k - 1], segment_points[2 * k]>>,
             p2 |-> <<segment_points[2 * k + 1], segment_points[2 * k + 2]>>,
             color |-> color, width |-> R(width)]]
         \o
         [k \in 1..(Len(segment_points) \div 2) |->
            [kind |-> "circle",
             p |-> <<segment_points[2 * k - 1], segment_points[2 * k]>>,
             radius |-> RMul(R(width), <<1, 4>>), color |-> color]]

RECURSIVE DrawSegments(_, _, _)
DrawSegments(segments, color, width) ==
    IF segments = <<>> THEN <<>>
    ELSE DrawPolyline(Head(segments), color, width)
         \o DrawSegments(Tail(segments), color, width)

\* lines 572-586: the marks of the whole working list
RECURSIVE DrawProcessed(_)
DrawProcessed(processed) ==
    IF processed = <<>> THEN <<>>
    ELSE DrawSegments(Head(processed).segments, Head(processed).color, Head(processed).width)
         \o DrawProcessed(Tail(processed))

RedChars == <<"r", "e", "d">>

\* fitz.Rect(x, y, x + 200, y + 50)
TextRect(xy) == <<xy[1], xy[2], RAdd(xy[1], R(200)), RAdd(xy[2], R(50))>>

\* lines 589-597
DrawTextMarks(texts, page_) ==
    [k \in 1..Len(texts) |->
        [kind |-> "textbox",
         rect |-> TextRect(percentage_to_pdf_coords(R(texts[k].x), R(texts[k].y),
                                                    page_.width, page_.height)),
         content |-> texts[k].text, fontsize |-> texts[k].fontSize,
         color |-> hex_to_rgb(RedChars)]]

\* lines 600-607
DrawStickyMarks(sticky_notes, page_) ==
    [k \in 1..Len(sticky_notes) |->
        [kind |-> "text_annot",
         p |-> percentage_to_pdf_coords(R(sticky_notes[k].x), R(sticky_notes[k].y),
                                        page_.width, page_.height),
         content |-> sticky_notes[k].text, open |-> TRUE, title |-> "Sticky Note"]]

(***************************************************************************)
(* Inputs.  Coordinates are percentages; on a 100 x 100 page a percentage  *)
(* is a page-space unit.                                                   *)
(***************************************************************************)
Page100 == [width |-> R(100), height |-> R(100)]

Blue == <<"b", "l", "u", "e">>
HexGreen == <<"#", "0", "0", "F", "f", "0", "0">>
ShortHex == <<"#", "1", "2">>

\* ink along y = 4, from x = 0 to x = 8
InkLong == [tool |-> "pencil", points |-> <<0, 4, 8, 4>>, stroke |-> Blue, strokeWidth |-> 2]
\* the same path with a vertex in the middle
InkTwoSeg == [tool |-> "pen", points |-> <<0, 4, 4, 4, 8, 4>>, stroke |-> HexGreen,
              strokeWidth |-> 4]
\* a single point, without a tool tag
InkDot == [points |-> <<4, 4>>, stroke |-> Blue, strokeWidth |-> 2]
\* a short stroke around (4, 4)
InkInside == [tool |-> "pencil", points |-> <<4, 3, 4, 5>>, stroke |-> Blue, strokeWidth |-> 2]
\* a stroke tagged "eraser"
TaggedEraser == [tool |-> "eraser", points |-> <<4, 2, 4, 6>>, stroke |-> Blue,
                 strokeWidth |-> 30]
\* eraser strokes: across the middle of InkLong, across its left half, a single
\* point, and far from all ink with another width
FineMid == [tool |-> "fine-eraser", points |-> <<4, 2, 4, 6>>, strokeWidth |-> 30]
FineLeft == [tool |-> "fine-eraser", points |-> <<2, 2, 2, 6>>, strokeWidth |-> 30]
FineDot == [tool |-> "fine-eraser", points |-> <<4, 4>>, strokeWidth |-> 30]
FineFar == [tool |-> "fine-eraser", points |-> <<40, 40, 48, 40>>, strokeWidth |-> 60]

TimelineStrokes ==
    {InkLong, InkTwoSeg, InkDot, InkInside, TaggedEraser, FineMid, FineLeft, FineDot, FineFar}

\* all sequences over S of length at most n
RECURSIVE SeqsUpTo(_, _)
SeqsUpTo(S, n) ==
    IF n = 0 THEN {<<>>}
    ELSE SeqsUpTo(S, n - 1)
         \cup {Append(q, x) : q \in {t \in SeqsUpTo(S, n - 1) : Len(t) = n - 1}, x \in S}

Text1 == [x |-> 4, y |-> 4, text |-> "ok", fontSize |-> 12]
Sticky1 == [x |-> 4, y |-> 5, text |-> "note"]

\* one record on page 1 of a one-page document, with every timeline
TimelineInputs ==
    {[doc |-> <<Page100>>,
      annotations |-> <<[page |-> 1,
                         data |-> [lines |-> tl, texts |-> <<Text1>>,
                                   stickyNotes |-> <<Sticky1>>]]>>]
        : tl \in SeqsUpTo(TimelineStrokes, MaxLines)}

\* malformed lines
NoPoints == [tool |-> "pencil", stroke |-> Blue, strokeWidth |-> 2]
OddPoints == [tool |-> "pencil", points |-> <<0, 4, 8>>, stroke |-> Blue, strokeWidth |-> 2]
NoStroke == [tool |-> "pencil", points |-> <<0, 4, 8, 4>>, strokeWidth |-> 2]
NoStrokeWidth == [tool |-> "pencil", points |-> <<0, 4, 8, 4>>, stroke |-> Blue]
BadColour == [tool |-> "pencil", points |-> <<0, 4, 8, 4>>, stroke |-> ShortHex,
              strokeWidth |-> 2]

\* tagged "eraser", with an odd number of coordinates
TaggedOdd == [tool |-> "eraser", points |-> <<4, 2, 4>>, stroke |-> Blue, strokeWidth |-> 30]

Rec(page, lines) ==
    [page |-> page, data |-> [lines |-> lines, texts |-> <<>>, stickyNotes |-> <<>>]]

RecordChoices ==
    {Rec(1, <<InkLong, FineMid>>), Rec(2, <<InkLong>>), Rec(0, <<InkLong>>),
     Rec(3, <<InkLong>>), Rec(1, <<NoPoints>>), Rec(2, <<OddPoints>>),
     Rec(1, <<InkLong, NoStroke>>), Rec(2, <<NoStrokeWidth>>), Rec(1, <<BadColour>>),
     Rec(2, <<InkLong, TaggedOdd>>),
     [data |-> [lines |-> <<InkTwoSeg>>]], [page |-> 2]}

\* several records on a two-page document
RecordInputs ==
    {[doc |-> <<Page100, Page100>>, annotations |-> a]
        : a \in SeqsUpTo(RecordChoices, MaxRecords)}

\* one record on a one-page document for each colour and eraser-width case:
\* an unknown colour name, a '#' value with a non-hex digit, one that is too
\* long; eraser strokes of width 0, negative, very large, and without a width
PolicyInputs ==
    {[doc |-> <<Page100>>, annotations |-> <<Rec(1, ls)>>]
        : ls \in {<<[InkLong EXCEPT !.stroke = <<"t", "e", "a", "l">>]>>,
                  <<[InkLong EXCEPT !.stroke = <<"#", "1", "2", "3", "4", "5", "g">>]>>,
                  <<[InkLong EXCEPT !.stroke = <<"#", "F", "F", "0", "0", "0", "0", "9">>]>>,
                  <<InkLong, [FineMid EXCEPT !.strokeWidth = 0]>>,
                  <<InkLong, [FineMid EXCEPT !.strokeWidth = -5]>>,
                  <<InkLong, [FineMid EXCEPT !.strokeWidth = 100000]>>,
                  <<InkLong, [tool |-> "fine-eraser", points |-> <<4, 2, 4, 6>>]>>,
                  <<InkLong, [FineMid EXCEPT !.strokeWidth = 0],
                    [FineMid EXCEPT !.strokeWidth = 100000]>>,
                  <<InkLong, [FineMid EXCEPT !.points = <<4, 4, 4, 4>>]>>,
                  <<InkLong, [FineMid EXCEPT !.points = <<4, 5, 4, 5, 4, 6>>]>>,
                  <<InkLong, [InkLong EXCEPT !.points = <<50, 4, 58, 4>>],
                    [FineMid EXCEPT !.points = <<4, 2, 4, 6, 60, 6, 60, 60>>]>>,
                  <<[InkLong EXCEPT !.points = <<90, 4, 120, 4, 120, -10>>],
                    [FineMid EXCEPT !.points = <<110, 2, 110, 6>>]>>,
                  <<InkLong, [FineMid EXCEPT !.points = <<4, 6, 4, 10>>,
                                             !.strokeWidth = 100000]>>,
                  <<[InkLong EXCEPT !.points = <<4, 4, 20, 20>>],
                    [FineMid EXCEPT !.points = <<4, 2, 4, 20, 30, 20>>]>>}}

(***************************************************************************)
(* State of one call of burn_annotations_to_pdf                            *)
(* (pdf_annotation_service.py 462-610): the locals of the running call.    *)
(* Around it: the service object the call is a method of, the request of   *)
(* the endpoint that made the call, and the locals of a second call that   *)
(* is suspended while this one runs.                                       *)
(***************************************************************************)
VARIABLES
    service,          \* the fields of the pdf_annotation_service singleton
    request,          \* the endpoint's request: files, position, response
    other,            \* the locals of the suspended call, NoCall when none
    doc,              \* the pages of the opened document (width, height)
    annotations,      \* the annotations argument
    pc,               \* "record", "lines", "texts", "stickies", "done", "raised"
    ai,               \* position of the for-loop over annotations
    li,               \* position of the for-loop over lines
    r_px,             \* eraser radius of the current record
    processed_lines,  \* the working list of the current record
    page_marks,       \* per page, the marks drawn on the in-memory document
    output,           \* the file at output_path
    exc,              \* the exception that left the call, "none" when none
    is_closed         \* doc.is_closed: FALSE from fitz.open (line 484) to doc.close()

vars == <<service, request, other,
         doc, annotations, pc, ai, li, r_px, processed_lines, page_marks, output, exc,
         is_closed>>

NoFile == [written |-> FALSE]

\* lines 33-34, 613-614: PdfAnnotationService() with debug = False
Singleton == [debug |-> FALSE]

\* a direct call of burn_annotations_to_pdf, and no second call
NoRequest == [endpoint |-> "none"]
NoCall == [pc |-> "none"]

InitWith(inputs) ==
    /\ service = Singleton
    /\ request = NoRequest
    /\ other = NoCall
    /\ \E inp \in inputs : doc = inp.doc /\ annotations = inp.annotations
    /\ pc = "record"
    /\ ai = 1
    /\ li = 1
    /\ r_px = Zero
    /\ processed_lines = <<>>
    /\ page_marks = [p \in 1..Len(doc) |-> <<>>]
    /\ output = NoFile
    /\ is_closed = FALSE
    /\ exc = "none"

Init == InitWith(TimelineInputs \cup RecordInputs \cup PolicyInputs)

EmptyDict == <<>>
annotation == annotations[ai]
page_number == Get(annotation, "page", 1)
total_pages == Len(doc)
page == doc[page_number]
data == Get(annotation, "data", EmptyDict)
lines == Get(data, "lines", <<>>)

\* SkipRecord without the range test: doc[page_number - 1] raises
SkipRecordRaises ==
    /\ pc = "record"
    /\ ai <= Len(annotations)
    /\ (page_number < 1 \/ page_number > total_pages)
    /\ exc' = "IndexError"
    /\ pc' = "raised"
    /\ UNCHANGED <<service, request, other>>
    /\ UNCHANGED <<is_closed, doc, annotations, ai, li, r_px, processed_lines, page_marks, output>>

\* lines 492-496: a page number out of range skips the record
SkipRecord ==
    /\ pc = "record"
    /\ ai <= Len(annotations)
    /\ (page_number < 1 \/ page_number > total_pages)
    /\ ai' = ai + 1
    /\ UNCHANGED <<service, request, other>>
    /\ UNCHANGED <<is_closed, doc, annotations, pc, li, r_px, processed_lines, page_marks,
                 output, exc>>

\* BeginRecord with the working list kept from the record before
BeginRecordKeepsList ==
    /\ pc = "record"
    /\ ai <= Len(annotations)
    /\ ~(page_number < 1 \/ page_number > total_pages)
    /\ r_px' = RadiusPx(eraser_width_percent(lines), page.width)
    /\ li' = 1
    /\ pc' = "lines"
    /\ UNCHANGED <<service, request, other>>
    /\ UNCHANGED <<is_closed, doc, annotations, ai, processed_lines, page_marks, output, exc>>

\* lines 498-526: the page, the eraser radius, an empty working list
BeginRecord ==
    /\ pc = "record"
    /\ ai <= Len(annotations)
    /\ ~(page_number < 1 \/ page_number > total_pages)
    /\ r_px' = RadiusPx(eraser_width_percent(lines), page.width)
    /\ processed_lines' = <<>>
    /\ li' = 1
    /\ pc' = "lines"
    /\ UNCHANGED <<service, request, other>>
    /\ UNCHANGED <<is_closed, doc, annotations, ai, page_marks, output, exc>>

\* the eraser strokes of ls applied in turn to the working list
RECURSIVE EraseWithAll(_, _, _, _)
EraseWithAll(processed, ls, r_px_, page_) ==
    IF ls = <<>> THEN processed
    ELSE EraseWithAll(IF IsFineEraser(Head(ls))
                      THEN ApplyEraser(processed, ConvertPoints(Head(ls).points, page_),
                                       r_px_, page_)
                      ELSE processed,
                      Tail(ls), r_px_, page_)

\* ProcessInk with the erasers seen so far used as a mask on the new ink too
ProcessInkMasked ==
    /\ pc = "lines"
    /\ li <= Len(lines)
    /\ LineRaises(lines[li], page) = "none"
    /\ Get(lines[li], "tool", "pencil") # EraserTool
    /\ processed_lines' = EraseWithAll(LineStep(lines[li], li, processed_lines, r_px, page),
                                       SubSeq(lines, 1, li - 1), r_px, page)
    /\ li' = li + 1
    /\ UNCHANGED <<service, request, other>>
    /\ UNCHANGED <<is_closed, doc, annotations, pc, ai, r_px, page_marks, output, exc>>

\* lines 565-569: an ink stroke joins the working list
ProcessInk ==
    /\ pc = "lines"
    /\ li <= Len(lines)
    /\ LineRaises(lines[li], page) = "none"
    /\ Get(lines[li], "tool", "pencil") # EraserTool
    /\ processed_lines' = LineStep(lines[li], li, processed_lines, r_px, page)
    /\ li' = li + 1
    /\ UNCHANGED <<service, request, other>>
    /\ UNCHANGED <<is_closed, doc, annotations, pc, ai, r_px, page_marks, output, exc>>

\* lines 539-563: an eraser stroke is applied to the working list
ProcessEraser ==
    /\ pc = "lines"
    /\ li <= Len(lines)
    /\ LineRaises(lines[li], page) = "none"
    /\ Get(lines[li], "tool", "pencil") = EraserTool
    /\ processed_lines' = LineStep(lines[li], li, processed_lines, r_px, page)
    /\ li' = li + 1
    /\ UNCHANGED <<service, request, other>>
    /\ UNCHANGED <<is_closed, doc, annotations, pc, ai, r_px, page_marks, output, exc>>

\* a line item raises: nothing in the function catches it
RaiseInLine ==
    /\ pc = "lines"
    /\ li <= Len(lines)
    /\ LineRaises(lines[li], page) # "none"
    /\ exc' = LineRaises(lines[li], page)
    /\ pc' = "raised"
    /\ UNCHANGED <<service, request, other>>
    /\ UNCHANGED <<is_closed, doc, annotations, ai, li, r_px, processed_lines, page_marks, output>>

\* lines 571-586
DrawLines ==
    /\ pc = "lines"
    /\ li > Len(lines)
    /\ page_marks' = [page_marks EXCEPT ![page_number] = @ \o DrawProcessed(processed_lines)]
    /\ pc' = "texts"
    /\ UNCHANGED <<service, request, other>>
    /\ UNCHANGED <<is_closed, doc, annotations, ai, li, r_px, processed_lines, output, exc>>

\* the text lies outside the region of every fine-eraser stroke of the record
TextOutsideErasers(t) ==
    \A k \in 1..Len(lines) :
        IsFineEraser(lines[k]) =>
            ~inside_point(percentage_to_pdf_coords(R(t.x), R(t.y), page.width, page.height),
                          build_capsules(ConvertPoints(lines[k].points, page), r_px),
                          GridOf(build_capsules(ConvertPoints(lines[k].points, page), r_px),
                                 r_px, page))

\* DrawTexts with the texts under an eraser stroke left out
DrawTextsErased ==
    /\ pc = "texts"
    /\ page_marks' = [page_marks EXCEPT ![page_number] =
                        @ \o DrawTextMarks(SelectSeq(Get(data, "texts", <<>>),
                                                     TextOutsideErasers), page)]
    /\ pc' = "stickies"
    /\ UNCHANGED <<service, request, other>>
    /\ UNCHANGED <<is_closed, doc, annotations, ai, li, r_px, processed_lines, output, exc>>

\* lines 588-597
DrawTexts ==
    /\ pc = "texts"
    /\ page_marks' = [page_marks EXCEPT ![page_number] =
                        @ \o DrawTextMarks(Get(data, "texts", <<>>), page)]
    /\ pc' = "stickies"
    /\ UNCHANGED <<service, request, other>>
    /\ UNCHANGED <<is_closed, doc, annotations, ai, li, r_px, processed_lines, output, exc>>

\* DrawStickies with the document saved at the end of every record
DrawStickiesSaves ==
    /\ pc = "stickies"
    /\ page_marks' = [page_marks EXCEPT ![page_number] =
                        @ \o DrawStickyMarks(Get(data, "stickyNotes", <<>>), page)]
    /\ output' = [written |-> TRUE, pages |-> page_marks']
    /\ pc' = "record"
    /\ ai' = ai + 1
    /\ UNCHANGED <<service, request, other>>
    /\ UNCHANGED <<is_closed, doc, annotations, li, r_px, processed_lines, exc>>

\* lines 599-607, and on to the next record
DrawStickies ==
    /\ pc = "stickies"
    /\ page_marks' = [page_marks EXCEPT ![page_number] =
                        @ \o DrawStickyMarks(Get(data, "stickyNotes", <<>>), page)]
    /\ pc' = "record"
    /\ ai' = ai + 1
    /\ UNCHANGED <<service, request, other>>
    /\ UNCHANGED <<is_closed, doc, annotations, li, r_px, processed_lines, output, exc>>

\* line 609: doc.save(output_path) after the last record
Save ==
    /\ pc = "record"
    /\ ai > Len(annotations)
    /\ output' = [written |-> TRUE, pages |-> page_marks]
    /\ pc' = "done"
    /\ UNCHANGED <<service, request, other>>
    /\ UNCHANGED <<is_closed, doc, annotations, ai, li, r_px, processed_lines, page_marks, exc>>

Next ==
    \/ SkipRecord
    \/ BeginRecord
    \/ ProcessInk
    \/ ProcessEraser
    \/ RaiseInLine
    \/ DrawLines
    \/ DrawTexts
    \/ DrawStickies
    \/ Save

Spec == Init /\ [][Next]_vars

(***************************************************************************)
(* The burn of the bulk export  (routers/export.py 359-464), which has its *)
(* own copy of the geometry above (export.py 55-354, the same code).       *)
(* One call of burn_annotations_to_pdf on the same state: li is the        *)
(* position in non_eraser_lines, processed_lines is not used.              *)
(***************************************************************************)
IsTaggedEraser(line) == Get(line, "tool", "None") = "eraser"
IsNotTaggedEraser(line) == Get(line, "tool", "None") # "eraser"

\* export.py 381-382
erasers == SelectSeq(lines, IsTaggedEraser)
non_eraser_lines == SelectSeq(lines, IsNotTaggedEraser)

\* export.py 398-405: the capsules of all eraser strokes of the page
RECURSIVE all_capsules(_, _, _)
all_capsules(ers, r_px_, page_) ==
    IF ers = <<>> THEN <<>>
    ELSE build_capsules(ConvertPoints(Head(ers).points, page_), r_px_)
         \o all_capsules(Tail(ers), r_px_, page_)

\* export.py 399-404: what the conversion of the eraser strokes raises
RECURSIVE ErasersRaise(_)
ErasersRaise(ers) ==
    IF ers = <<>> THEN "none"
    ELSE IF ~Has(Head(ers), "points") THEN "KeyError"
    ELSE IF Len(Head(ers).points) % 2 = 1 THEN "IndexError"
    ELSE ErasersRaise(Tail(ers))

\* export.py 413-424: what one iteration over non_eraser_lines raises
ExportLineRaises(line) ==
    IF ~Has(line, "points") THEN "KeyError"
    ELSE IF Len(line.points) % 2 = 1 THEN "IndexError"
    ELSE IF ~Has(line, "stroke") THEN "KeyError"
    ELSE IF hex_to_rgb(line.stroke) = ValueError THEN "ValueError"
    ELSE IF ~Has(line, "strokeWidth") THEN "KeyError"
    ELSE "none"

\* export.py 421: the line filtered against all capsules of the page
ExportFilter(line, capsules, r_px_, page_) ==
    filter_line_by_eraser_px(ConvertPoints(line.points, page_), capsules,
                             GridOf(capsules, r_px_, page_), MaxIter)

\* export.py 413-439: the marks of one non-eraser line
ExportLineMarks(line, ers, r_px_, page_) ==
    DrawSegments(ExportFilter(line, all_capsules(ers, r_px_, page_), r_px_, page_),
                 hex_to_rgb(line.stroke), line.strokeWidth)

\* export.py 365-369
ExportSkipRecord ==
    /\ pc = "record"
    /\ ai <= Len(annotations)
    /\ (page_number < 1 \/ page_number > total_pages)
    /\ ai' = ai + 1
    /\ UNCHANGED <<service, request, other>>
    /\ UNCHANGED <<is_closed, doc, annotations, pc, li, r_px, processed_lines, page_marks,
                 output, exc>>

\* export.py 371-411: the radius from the strokes tagged "eraser", all capsules
ExportBeginRecord ==
    /\ pc = "record"
    /\ ai <= Len(annotations)
    /\ ~(page_number < 1 \/ page_number > total_pages)
    /\ ErasersRaise(erasers) = "none"
    /\ r_px' = RadiusPx(WidthPercentOf(erasers), page.width)
    /\ li' = 1
    /\ pc' = "lines"
    /\ UNCHANGED <<service, request, other>>
    /\ UNCHANGED <<is_closed, doc, annotations, ai, processed_lines, page_marks, output, exc>>

\* export.py 399-404: an eraser stroke raises
ExportRaiseInErasers ==
    /\ pc = "record"
    /\ ai <= Len(annotations)
    /\ ~(page_number < 1 \/ page_number > total_pages)
    /\ ErasersRaise(erasers) # "none"
    /\ exc' = ErasersRaise(erasers)
    /\ pc' = "raised"
    /\ UNCHANGED <<service, request, other>>
    /\ UNCHANGED <<is_closed, doc, annotations, ai, li, r_px, processed_lines, page_marks, output>>

\* export.py 413-439: one non-eraser line is filtered and drawn
ExportLine ==
    /\ pc = "lines"
    /\ li <= Len(non_eraser_lines)
    /\ ExportLineRaises(non_eraser_lines[li]) = "none"
    /\ page_marks' = [page_marks EXCEPT ![page_number] =
                        @ \o ExportLineMarks(non_eraser_lines[li], erasers, r_px, page)]
    /\ li' = li + 1
    /\ UNCHANGED <<service, request, other>>
    /\ UNCHANGED <<is_closed, doc, annotations, pc, ai, r_px, processed_lines, output, exc>>

\* export.py 413-424: a non-eraser line raises
ExportRaiseInLine ==
    /\ pc = "lines"
    /\ li <= Len(non_eraser_lines)
    /\ ExportLineRaises(non_eraser_lines[li]) # "none"
    /\ exc' = ExportLineRaises(non_eraser_lines[li])
    /\ pc' = "raised"
    /\ UNCHANGED <<service, request, other>>
    /\ UNCHANGED <<is_closed, doc, annotations, ai, li, r_px, processed_lines, page_marks, output>>

\* export.py 441-450
ExportTexts ==
    /\ pc = "lines"
    /\ li > Len(non_eraser_lines)
    /\ page_marks' = [page_marks EXCEPT ![page_number] =
                        @ \o DrawTextMarks(Get(data, "texts", <<>>), page)]
    /\ pc' = "stickies"
    /\ UNCHANGED <<service, request, other>>
    /\ UNCHANGED <<is_closed, doc, annotations, ai, li, r_px, processed_lines, output, exc>>

\* export.py 452-460, and on to the next record
ExportStickies ==
    /\ pc = "stickies"
    /\ page_marks' = [page_marks EXCEPT ![page_number] =
                        @ \o DrawStickyMarks(Get(data, "stickyNotes", <<>>), page)]
    /\ pc' = "record"
    /\ ai' = ai + 1
    /\ UNCHANGED <<service, request, other>>
    /\ UNCHANGED <<is_closed, doc, annotations, li, r_px, processed_lines, output, exc>>

\* export.py 462
ExportSave ==
    /\ pc = "record"
    /\ ai > Len(annotations)
    /\ output' = [written |-> TRUE, pages |-> page_marks]
    /\ pc' = "done"
    /\ UNCHANGED <<service, request, other>>
    /\ UNCHANGED <<is_closed, doc, annotations, ai, li, r_px, processed_lines, page_marks, exc>>

NextExport ==
    \/ ExportSkipRecord
    \/ ExportBeginRecord
    \/ ExportRaiseInErasers
    \/ ExportLine
    \/ ExportRaiseInLine
    \/ ExportTexts
    \/ ExportStickies
    \/ ExportSave

SpecExport == Init /\ [][NextExport]_vars

(***************************************************************************)
(* The endpoints that load a student's annotation files and call a burn:   *)
(* export_annotated_pdfs  (routers/export.py 467-522, with one answer      *)
(* sheet in the folder) and download_annotated_pdf                         *)
(* (routers/student_results.py 366-461).  A file is its stem and what      *)
(* json.load makes of its content: "invalid" raises JSONDecodeError,       *)
(* "object" gives a dict, "array" gives a list.                            *)
(***************************************************************************)
Digits == <<"0", "1", "2", "3", "4", "5", "6", "7", "8", "9">>
IsDigit(ch) == \E i \in 1..10 : Digits[i] = ch
DigitVal(ch) == (CHOOSE i \in 1..10 : Digits[i] = ch) - 1

\* int(s) of a string of decimal digits
RECURSIVE IntBase10(_)
IntBase10(sl) ==
    IF Len(sl) = 1 THEN DigitVal(sl[1])
    ELSE 10 * IntBase10(SubSeq(sl, 1, Len(sl) - 1)) + DigitVal(sl[Len(sl)])

\* export.py 499-506: the page number from the stem; stem.tail is what follows
\* the last "page_" of the stem, int() of it raises ValueError unless it is a number
PageFromStem(stem) ==
    IF stem.page_
    THEN IF stem.tail # <<>> /\ \A k \in 1..Len(stem.tail) : IsDigit(stem.tail[k])
         THEN IntBase10(stem.tail)
         ELSE 1
    ELSE 1

\* export.py 497-506, student_results.py 383-393
FilePage(file) ==
    IF Has(file.json.value, "page") THEN file.json.value.page ELSE PageFromStem(file.stem)

\* export.py 494-508: what loading the file raises: json.load on invalid JSON,
\* data.get on a list
LoadRaises(file) ==
    IF file.json.kind = "invalid" THEN "JSONDecodeError"
    ELSE IF file.json.kind # "object" THEN "AttributeError"
    ELSE "none"

\* export.py 508
ExportRecord(file) == [page |-> FilePage(file), data |-> file.json.value]

DefaultColor == <<"#", "f", "f", "0", "0", "0", "0">>

\* student_results.py 400-405
ConvertedLine(line) ==
    [points |-> Get(line, "points", <<>>),
     stroke |-> Get(line, "color", DefaultColor),
     strokeWidth |-> Get(line, "width", 2),
     tool |-> Get(line, "tool", "pencil")]

\* student_results.py 412-415, 422-425: {**item, "fontSize": item.get("fontSize", size)}
WithFontSize(item, size) == IF Has(item, "fontSize") THEN item ELSE item @@ [fontSize |-> size]

ConvertedLines(d) ==
    IF Has(d, "lines")
    THEN [d EXCEPT !.lines = [k \in 1..Len(d.lines) |-> ConvertedLine(d.lines[k])]]
    ELSE d

ConvertedTexts(d) ==
    IF Has(d, "texts")
    THEN [d EXCEPT !.texts = [k \in 1..Len(d.texts) |-> WithFontSize(d.texts[k], 16)]]
    ELSE d

ConvertedStickies(d) ==
    IF Has(d, "stickyNotes")
    THEN [d EXCEPT !.stickyNotes =
              [k \in 1..Len(d.stickyNotes) |-> WithFontSize(d.stickyNotes[k], 14)]]
    ELSE d

\* student_results.py 397-427
converted_data(d) == ConvertedStickies(ConvertedTexts(ConvertedLines(d)))

\* student_results.py 429
StudentRecord(file) == [page |-> FilePage(file), data |-> converted_data(file.json.value)]

LoadedRecord(file) ==
    IF request.endpoint = "student" THEN StudentRecord(file) ELSE ExportRecord(file)

NoResponse == [status |-> 0]
annotation_file == request.files[request.fi]

\* SkipFile without the try/except around the load: the exception leaves the
\* endpoint and the request fails
SkipFileFails ==
    /\ pc = "load"
    /\ request.fi <= Len(request.files)
    /\ LoadRaises(annotation_file) # "none"
    /\ exc' = LoadRaises(annotation_file)
    /\ pc' = "responded"
    /\ request' = [request EXCEPT !.response = [status |-> 500, file |-> "none"]]
    /\ UNCHANGED <<service, other>>
    /\ UNCHANGED <<is_closed, doc, annotations, ai, li, r_px, processed_lines, page_marks, output>>

\* export.py 509-511, student_results.py 430-432: a file that cannot be loaded
\* is skipped
SkipFile ==
    /\ pc = "load"
    /\ request.fi <= Len(request.files)
    /\ LoadRaises(annotation_file) # "none"
    /\ request' = [request EXCEPT !.fi = @ + 1]
    /\ UNCHANGED <<service, other>>
    /\ UNCHANGED <<is_closed, doc, annotations, pc, ai, li, r_px, processed_lines, page_marks,
                 output, exc>>

\* export.py 494-508, student_results.py 378-429: the file's record is appended
LoadFile ==
    /\ pc = "load"
    /\ request.fi <= Len(request.files)
    /\ LoadRaises(annotation_file) = "none"
    /\ annotations' = Append(annotations, LoadedRecord(annotation_file))
    /\ request' = [request EXCEPT !.fi = @ + 1]
    /\ UNCHANGED <<service, other>>
    /\ UNCHANGED <<is_closed, doc, pc, ai, li, r_px, processed_lines, page_marks, output, exc>>

\* export.py 513-514: the student is left out of the archive;
\* student_results.py 435-440: the original PDF is returned
NoAnnotations ==
    /\ pc = "load"
    /\ request.fi > Len(request.files)
    /\ annotations = <<>>
    /\ pc' = "responded"
    /\ request' = [request EXCEPT !.response =
                      [status |-> 200,
                       file |-> IF request.endpoint = "student" THEN "original"
                                ELSE "empty archive"]]
    /\ UNCHANGED <<service, other>>
    /\ UNCHANGED <<is_closed, doc, annotations, ai, li, r_px, processed_lines, page_marks,
                 output, exc>>

\* export.py 516-517, student_results.py 443-450: the burn is called with the
\* loaded records
CallBurn ==
    /\ pc = "load"
    /\ request.fi > Len(request.files)
    /\ annotations # <<>>
    /\ pc' = "record"
    /\ UNCHANGED <<service, request, other>>
    /\ UNCHANGED <<is_closed, doc, annotations, ai, li, r_px, processed_lines, page_marks,
                 output, exc>>

\* export.py 518-522, student_results.py 453-457: the burnt file is sent
Respond ==
    /\ request.endpoint # "none"
    /\ pc = "done"
    /\ pc' = "responded"
    /\ request' = [request EXCEPT !.response =
                      [status |-> 200,
                       file |-> IF request.endpoint = "student" THEN "annotated"
                                ELSE "archive"]]
    /\ UNCHANGED <<service, other>>
    /\ UNCHANGED <<is_closed, doc, annotations, ai, li, r_px, processed_lines, page_marks,
                 output, exc>>

\* student_results.py 459-461: HTTPException(500); export.py 517: the exception
\* of the burn leaves the endpoint
RespondError ==
    /\ request.endpoint # "none"
    /\ pc = "raised"
    /\ pc' = "responded"
    /\ request' = [request EXCEPT !.response = [status |-> 500, file |-> "none"]]
    /\ UNCHANGED <<service, other>>
    /\ UNCHANGED <<is_closed, doc, annotations, ai, li, r_px, processed_lines, page_marks,
                 output, exc>>

\* annotation files: the strokes as the burns read them (stroke, strokeWidth) and
\* as the annotation API stores them (color, width)
ApiInk == [tool |-> "pen", points |-> <<0, 4, 8, 4>>, color |-> HexGreen, width |-> 3]
ApiEraser == [tool |-> "fine-eraser", points |-> <<4, 2, 4, 6>>, width |-> 30]
NoteNoSize == [x |-> 4, y |-> 5, text |-> "note"]

InvalidJson == [kind |-> "invalid"]
JsonArray == [kind |-> "array"]
JsonObject(d) == [kind |-> "object", value |-> d]

Stem(page_, tail) == [page_ |-> page_, tail |-> tail]

AnnotationFiles ==
    {[stem |-> Stem(TRUE, <<"2">>), json |-> InvalidJson],
     [stem |-> Stem(TRUE, <<"1">>),
      json |-> JsonObject([page |-> 1, lines |-> <<InkLong, FineMid>>, texts |-> <<Text1>>])],
     [stem |-> Stem(TRUE, <<"2">>),
      json |-> JsonObject([lines |-> <<ApiInk, ApiEraser>>, stickyNotes |-> <<NoteNoSize>>])],
     [stem |-> Stem(TRUE, <<"x">>), json |-> JsonObject([lines |-> <<InkLong, TaggedEraser>>])],
     [stem |-> Stem(FALSE, <<>>), json |-> JsonObject([page |-> 2, lines |-> <<TaggedOdd>>])],
     [stem |-> Stem(TRUE, <<"1", "2">>), json |-> JsonObject([lines |-> <<InkLong>>])],
     [stem |-> Stem(FALSE, <<>>), json |-> JsonArray]}

FileInputs == SeqsUpTo(AnnotationFiles, MaxFiles)

InitEndpoints ==
    /\ service = Singleton
    /\ other = NoCall
    /\ \E e \in {"export", "student"}, fs \in FileInputs :
          request = [endpoint |-> e, files |-> fs, fi |-> 1, response |-> NoResponse]
    /\ doc = <<Page100, Page100>>
    /\ annotations = <<>>
    /\ pc = "load"
    /\ ai = 1
    /\ li = 1
    /\ r_px = Zero
    /\ processed_lines = <<>>
    /\ page_marks = [p \in 1..Len(doc) |-> <<>>]
    /\ output = NoFile
    /\ is_closed = FALSE
    /\ exc = "none"

\* the student download calls the service, the export its own burn
NextEndpoints ==
    \/ SkipFile
    \/ LoadFile
    \/ NoAnnotations
    \/ CallBurn
    \/ Respond
    \/ RespondError
    \/ request.endpoint = "student" /\ SkipRecord
    \/ request.endpoint = "student" /\ BeginRecord
    \/ request.endpoint = "student" /\ ProcessInk
    \/ request.endpoint = "student" /\ ProcessEraser
    \/ request.endpoint = "student" /\ RaiseInLine
    \/ request.endpoint = "student" /\ DrawLines
    \/ request.endpoint = "student" /\ DrawTexts
    \/ request.endpoint = "student" /\ DrawStickies
    \/ request.endpoint = "student" /\ Save
    \/ request.endpoint = "export" /\ ExportSkipRecord
    \/ request.endpoint = "export" /\ ExportBeginRecord
    \/ request.endpoint = "export" /\ ExportRaiseInErasers
    \/ request.endpoint = "export" /\ ExportLine
    \/ request.endpoint = "export" /\ ExportRaiseInLine
    \/ request.endpoint = "export" /\ ExportTexts
    \/ request.endpoint = "export" /\ ExportStickies
    \/ request.endpoint = "export" /\ ExportSave

SpecEndpoints == InitEndpoints /\ [][NextEndpoints]_vars

(***************************************************************************)
(* Two calls of burn_annotations_to_pdf on the one pdf_annotation_service  *)
(* object  (pdf_annotation_service.py 613-614), run by two threads.  The   *)
(* variables of the burn are the locals of the call that is running; other *)
(* holds the locals of the call that is suspended.  A switch of threads    *)
(* can come between any two steps.  The object itself (self.debug,         *)
(* lines 33-39) is what the two calls share.                               *)
(***************************************************************************)
Locals ==
    [doc |-> doc, annotations |-> annotations, pc |-> pc, ai |-> ai, li |-> li,
     r_px |-> r_px, processed_lines |-> processed_lines, page_marks |-> page_marks,
     output |-> output, exc |-> exc, is_closed |-> is_closed]

\* Switch with the eraser radius kept on the shared object instead of in the
\* locals of each call
SwitchKeepingRadius ==
    /\ other # NoCall
    /\ doc' = other.doc
    /\ annotations' = other.annotations
    /\ pc' = other.pc
    /\ ai' = other.ai
    /\ li' = other.li
    /\ processed_lines' = other.processed_lines
    /\ page_marks' = other.page_marks
    /\ output' = other.output
    /\ is_closed' = other.is_closed
    /\ exc' = other.exc
    /\ other' = Locals
    /\ UNCHANGED <<service, request, r_px>>

\* lines 462-486: every name the burn assigns is a local of the call (doc,
\* total_pages, page, r_px, processed_lines, ...), so the thread that is resumed
\* finds its own values and the object is left as it is
Switch ==
    /\ other # NoCall
    /\ doc' = other.doc
    /\ annotations' = other.annotations
    /\ pc' = other.pc
    /\ ai' = other.ai
    /\ li' = other.li
    /\ r_px' = other.r_px
    /\ processed_lines' = other.processed_lines
    /\ page_marks' = other.page_marks
    /\ output' = other.output
    /\ is_closed' = other.is_closed
    /\ exc' = other.exc
    /\ other' = Locals
    /\ UNCHANGED <<service, request>>

\* the locals of a call that has not made a step yet
Started(inp) ==
    [doc |-> inp.doc, annotations |-> inp.annotations, pc |-> "record", ai |-> 1, li |-> 1,
     r_px |-> Zero, processed_lines |-> <<>>,
     page_marks |-> [p \in 1..Len(inp.doc) |-> <<>>],
     output |-> NoFile, exc |-> "none", is_closed |-> FALSE]

\* calls for three documents: with different eraser radii, with a record out of
\* range, with a line that raises
ConcurrentCalls ==
    {[doc |-> <<Page100>>,
      annotations |-> <<[page |-> 1,
                         data |-> [lines |-> <<InkLong, FineMid>>, texts |-> <<Text1>>]]>>],
     [doc |-> <<Page100, Page100>>,
      annotations |-> <<Rec(0, <<InkLong>>),
                        Rec(2, <<InkTwoSeg, [FineLeft EXCEPT !.strokeWidth = 100000]>>)>>],
     [doc |-> <<Page100, Page100, Page100>>,
      annotations |-> <<[page |-> 3,
                         data |-> [lines |-> <<InkInside, FineMid, FineDot>>,
                                   stickyNotes |-> <<Sticky1>>]],
                        Rec(1, <<InkLong, OddPoints>>)>>]}

InitConcurrent ==
    /\ service = Singleton
    /\ request = NoRequest
    /\ \E a \in ConcurrentCalls, b \in ConcurrentCalls :
          /\ a.doc # b.doc
          /\ doc = a.doc /\ annotations = a.annotations
          /\ other = Started(b)
    /\ pc = "record"
    /\ ai = 1
    /\ li = 1
    /\ r_px = Zero
    /\ processed_lines = <<>>
    /\ page_marks = [p \in 1..Len(doc) |-> <<>>]
    /\ output = NoFile
    /\ is_closed = FALSE
    /\ exc = "none"

NextConcurrent ==
    \/ Switch
    \/ SkipRecord
    \/ BeginRecord
    \/ ProcessInk
    \/ ProcessEraser
    \/ RaiseInLine
    \/ DrawLines
    \/ DrawTexts
    \/ DrawStickies
    \/ Save

SpecConcurrent == InitConcurrent /\ [][NextConcurrent]_vars

(***************************************************************************)
(* Vocabulary of the properties.  While pc is "lines", "texts", "stickies" *)
(* or "raised" the current record is annotations[ai] and the lines before  *)
(* position li have been processed.                                        *)
(***************************************************************************)
InRecord == pc \in {"lines", "texts", "stickies", "raised"}

IsFine(k) == Get(lines[k], "tool", "pencil") = EraserTool

\* the positions before li that hold ink, resp. eraser strokes
InkBefore == {j \in 1..(li - 1) : ~IsFine(j)}
FineBefore == {k \in 1..(li - 1) : IsFine(k)}

PointsPx(j) == ConvertPoints(lines[j].points, page)

\* the vertices of stroke j in page space
Vertices(j) == {<<PointsPx(j)[2 * v - 1], PointsPx(j)[2 * v]>> : v \in 1..(Len(PointsPx(j)) \div 2)}

\* the capsules of eraser stroke k with the radius r, and membership in their union
RegionCapsules(k, r) == build_capsules(PointsPx(k), r)

InRegion(pt, k, r) ==
    inside_point(pt, RegionCapsules(k, r), GridOf(RegionCapsules(k, r), r, page))

\* the entries of the working list that stem from the stroke at position j
EntriesOf(j) == {e \in 1..Len(processed_lines) : processed_lines[e].src = j}

\* the line marks an unclipped stroke j puts on the page
OriginalLineMarks(j) ==
    {[kind |-> "line",
      p1 |-> <<PointsPx(j)[2 * v - 1], PointsPx(j)[2 * v]>>,
      p2 |-> <<PointsPx(j)[2 * v + 1], PointsPx(j)[2 * v + 2]>>,
      color |-> hex_to_rgb(lines[j].stroke), width |-> R(lines[j].strokeWidth)]
        : v \in 1..((Len(PointsPx(j)) - 2) \div 2)}

MarksOn(p) == {page_marks[p][m] : m \in 1..Len(page_marks[p])}

\* every vertex of stroke j is inside the union of the capsules
VerticesInside(j, capsules, grid) ==
    \A pt \in Vertices(j) : inside_point(pt, capsules, grid)

VerticesInRegion(j, capsules) ==
    /\ capsules # <<>>
    /\ VerticesInside(j, capsules, GridOf(capsules, r_px, page))

\* ink j lies wholly in the region of a later processed eraser k
ErasedBy(j, k) ==
    /\ j \in InkBefore /\ k \in FineBefore /\ j < k
    /\ VerticesInRegion(j, RegionCapsules(k, r_px))

\* ink m comes after every processed eraser
AfterErasers(m) == m \in InkBefore /\ \A k \in FineBefore : k < m

(***************************************************************************)
(* C1.  Order sensitivity: an eraser stroke acts only on the ink before    *)
(* it.  Ink that comes after every eraser stroke keeps exactly its         *)
(* original points in the working list, and once the lines are drawn every *)
(* one of its original segments is on the page, even where it lies in an   *)
(* earlier eraser's region; ink that lies wholly in the region of an       *)
(* eraser stroke after it is gone from the working list.                   *)
(***************************************************************************)
C1_OrderSensitive ==
    InRecord =>
        /\ \A m \in InkBefore :
              AfterErasers(m) =>
                /\ \E e \in EntriesOf(m) : processed_lines[e].segments = <<PointsPx(m)>>
                /\ pc \in {"texts", "stickies"} =>
                      OriginalLineMarks(m) \subseteq MarksOn(page_number)
        /\ \A j \in InkBefore, k \in FineBefore : ErasedBy(j, k) => EntriesOf(j) = {}

\* draw A, erase over A, draw B in the same region: B is whole, A is gone
C1_Witness ==
    /\ pc = "texts"
    /\ \E j \in InkBefore, k \in FineBefore, m \in InkBefore :
          /\ ErasedBy(j, k)
          /\ AfterErasers(m) /\ k < m
          /\ \A pt \in Vertices(m) : InRegion(pt, k, r_px)
          /\ lines[m] = lines[j]
          /\ Get(lines[m], "tool", "pencil") = "pencil"
          /\ Len(lines[m].points) >= 4
          /\ EntriesOf(j) = {}
          /\ OriginalLineMarks(m) \subseteq MarksOn(page_number)

(***************************************************************************)
(* The eraser stroke about to be processed, and the segments of the        *)
(* working list it will be run against.                                    *)
(***************************************************************************)
AtEraser ==
    /\ pc = "lines" /\ li <= Len(lines)
    /\ LineRaises(lines[li], page) = "none"
    /\ IsFine(li)

NextCapsules == RegionCapsules(li, r_px)
NextGrid == GridOf(NextCapsules, r_px, page)

\* the segments <<p0, p1>> of the surviving polylines in the working list
WorkingSegments ==
    {<<<<processed_lines[e].segments[s][2 * v - 1], processed_lines[e].segments[s][2 * v]>>,
       <<processed_lines[e].segments[s][2 * v + 1], processed_lines[e].segments[s][2 * v + 2]>>>>
        : <<e, s, v>> \in
            {t \in (1..Len(processed_lines)) \X (1..4) \X (1..4) :
                /\ t[2] <= Len(processed_lines[t[1]].segments)
                /\ 2 * t[3] + 2 <= Len(processed_lines[t[1]].segments[t[2]])}}

InsideNext(pt) == inside_point(pt, NextCapsules, NextGrid)

\* the bisection tolerance as a fraction of the segment: 2^-max_iter
RECURSIVE HalfPow(_)
HalfPow(n) == IF n = 0 THEN One ELSE RMul(Half, HalfPow(n - 1))

\* q moved along p0 -> p1 by the fraction t of the segment
Moved(q, p0, p1, t) ==
    <<RAdd(q[1], RMul(t, RSub(p1[1], p0[1]))), RAdd(q[2], RMul(t, RSub(p1[2], p0[2])))>>

\* the classification changes within one tolerance step of q along the segment
AtCrossing(q, p0, p1) ==
    \/ InsideNext(q) # InsideNext(Moved(q, p0, p1, HalfPow(MaxIter)))
    \/ InsideNext(q) # InsideNext(Moved(q, p0, p1, RNeg(HalfPow(MaxIter))))

\* both ends outside, the segment passes through a capsule
PassesThrough(p0, p1) ==
    /\ NextCapsules # <<>>
    /\ ~InsideNext(p0) /\ ~InsideNext(p1)
    /\ seg_hits_any_capsule(p0[1], p0[2], p1[1], p1[2], NextCapsules, NextGrid)

SplitNext(p0, p1) == split_segment_against_eraser(p0, p1, NextCapsules, NextGrid, MaxIter)

(***************************************************************************)
(* C2.  Pass-through: a segment with both ends outside the eraser that     *)
(* passes through a capsule splits into exactly two pieces, [p0, enter]    *)
(* and [exit, p1], with enter and exit at the crossings of the segment     *)
(* with the capsule boundary (within the bisection tolerance), wherever    *)
(* along the segment the capsule lies.                                     *)
(***************************************************************************)
C2_PassThroughSplit ==
    AtEraser =>
        \A seg \in WorkingSegments :
            PassesThrough(seg[1], seg[2]) =>
                /\ Len(SplitNext(seg[1], seg[2])) = 2
                /\ SplitNext(seg[1], seg[2])[1][1] = seg[1]
                /\ SplitNext(seg[1], seg[2])[2][2] = seg[2]
                /\ AtCrossing(SplitNext(seg[1], seg[2])[1][2], seg[1], seg[2])
                /\ AtCrossing(SplitNext(seg[1], seg[2])[2][1], seg[1], seg[2])

\* the working list after the eraser stroke at li, and after processing it again
ErasedOnce == ApplyEraser(processed_lines, PointsPx(li), r_px, page)
ErasedTwice == ApplyEraser(ErasedOnce, PointsPx(li), r_px, page)

(***************************************************************************)
(* C3.  Idempotence of re-erasure: processing the same eraser stroke       *)
(* twice in a row leaves the same surviving polylines (same number, same   *)
(* points) as processing it once.                                          *)
(***************************************************************************)
C3_ReErasureIdempotent ==
    AtEraser =>
        /\ Len(ErasedTwice) = Len(ErasedOnce)
        /\ \A e \in 1..Len(ErasedOnce) :
              /\ Len(ErasedTwice[e].segments) = Len(ErasedOnce[e].segments)
              /\ ErasedTwice[e].segments = ErasedOnce[e].segments

\* exactly one end of the segment is inside the eraser
OneEndInside(p0, p1) ==
    /\ NextCapsules # <<>>
    /\ InsideNext(p0) # InsideNext(p1)

BoundaryNext(p0, p1) == bisect_boundary(p0, p1, NextCapsules, NextGrid, MaxIter)

(***************************************************************************)
(* C4.  Boundary convergence: for a segment with exactly one end inside    *)
(* the eraser, the point bisect_boundary returns classifies as outside     *)
(* under the inside test and lies within the bisection tolerance of the    *)
(* crossing of the segment with the capsule boundary.                      *)
(***************************************************************************)
C4_BoundaryOutside ==
    AtEraser =>
        \A seg \in WorkingSegments :
            OneEndInside(seg[1], seg[2]) =>
                /\ ~InsideNext(BoundaryNext(seg[1], seg[2]))
                /\ AtCrossing(BoundaryNext(seg[1], seg[2]), seg[1], seg[2])

(***************************************************************************)
(* Vocabulary for the export burn: positions in lines of the strokes that  *)
(* are, resp. are not, tagged "eraser"; the first li - 1 untagged strokes  *)
(* have been drawn.                                                        *)
(***************************************************************************)
TaggedPositions == {k \in 1..Len(lines) : IsTaggedEraser(lines[k])}
UntaggedPositions == {k \in 1..Len(lines) : ~IsTaggedEraser(lines[k])}

\* the untagged strokes drawn so far, by position in lines
ExportDrawn ==
    {m \in UntaggedPositions : Cardinality({j \in UntaggedPositions : j <= m}) < li}

(***************************************************************************)
(* C5.  The bulk-export burn honours the stroke timeline: an ink stroke    *)
(* that comes in lines after the eraser strokes is not erased by them;     *)
(* once it is drawn, all its original segments are on the page, even when  *)
(* it lies in the erased area.                                             *)
(***************************************************************************)
C5_ExportHonoursTimeline ==
    pc \in {"lines", "stickies"} =>
        \A m \in ExportDrawn :
            (\A k \in TaggedPositions : k < m) =>
                OriginalLineMarks(m) \subseteq MarksOn(page_number)

\* the working list of a burn of the strokes ls alone, from stroke n on, with
\* the radius r_px_ that burn computes for them
RECURSIVE Replay(_, _, _, _, _)
Replay(ls, n, processed, r_px_, page_) ==
    IF n > Len(ls) THEN processed
    ELSE Replay(ls, n + 1, LineStep(ls[n], n, processed, r_px_, page_), r_px_, page_)

BurnOf(ls) == Replay(ls, 1, <<>>, RadiusPx(eraser_width_percent(ls), page.width), page)

(***************************************************************************)
(* C6.  The region an eraser stroke erases is fixed when the stroke is     *)
(* processed: the working list after the first n strokes of a timeline is  *)
(* the one a burn of those n strokes alone produces, whatever strokes      *)
(* follow them (later eraser strokes with another strokeWidth included).   *)
(***************************************************************************)
C6_ErasedRegionFixed ==
    (pc \in {"lines", "texts"}) => processed_lines = BurnOf(SubSeq(lines, 1, li - 1))

(***************************************************************************)
(* Vocabulary for whole calls: the records of the annotations argument.    *)
(***************************************************************************)
RecordPage(a) == Get(annotations[a], "page", 1)
RecordLines(a) == Get(Get(annotations[a], "data", EmptyDict), "lines", <<>>)
RecordOnPage(a) == RecordPage(a) >= 1 /\ RecordPage(a) <= Len(doc)

\* some line of record a raises
RecordFails(a) ==
    \E k \in 1..Len(RecordLines(a)) : LineRaises(RecordLines(a)[k], doc[RecordPage(a)]) # "none"

\* the marks the lines of record a put on its page when burnt alone
RecordLineMarks(a) ==
    DrawProcessed(Replay(RecordLines(a), 1, <<>>,
                         RadiusPx(eraser_width_percent(RecordLines(a)),
                                  doc[RecordPage(a)].width),
                         doc[RecordPage(a)]))

MarksOf(marks) == {marks[m] : m \in 1..Len(marks)}

\* the call is over: it returned or an exception left it
CallOver == pc \in {"done", "raised"}

(***************************************************************************)
(* C7.  A failure on one record does not abort the others: when the call   *)
(* is over the output document is saved, and every record that does not    *)
(* fail itself has the marks of its lines on its page of the output.       *)
(***************************************************************************)
C7_FailureIsolated ==
    CallOver =>
        /\ output.written
        /\ \A a \in 1..Len(annotations) :
              (RecordOnPage(a) /\ ~RecordFails(a)) =>
                  MarksOf(RecordLineMarks(a)) \subseteq MarksOf(output.pages[RecordPage(a)])

\* squared distance of two points
PointDist2(p, q) == RAdd(Sq(RSub(p[1], q[1])), Sq(RSub(p[2], q[2])))

\* eraser stroke k has a single point, and ink j lies within the radius of it
DotErases(j, k) ==
    /\ j \in InkBefore /\ k \in FineBefore /\ j < k
    /\ Len(lines[k].points) = 2
    /\ \A pt \in Vertices(j) :
          RLe(PointDist2(pt, <<PointsPx(k)[1], PointsPx(k)[2]>>), Sq(r_px))

(***************************************************************************)
(* C8.  A single-point eraser stroke still erases: ink drawn before it     *)
(* that lies within the eraser radius of its point is gone from the        *)
(* surviving polylines.                                                    *)
(***************************************************************************)
C8_SinglePointEraserErases ==
    InRecord => \A j \in InkBefore, k \in FineBefore : DotErases(j, k) => EntriesOf(j) = {}

\* the dot of a single-point stroke m
DotMark(m) ==
    [kind |-> "circle",
     p |-> <<PointsPx(m)[1], PointsPx(m)[2]>>,
     radius |-> RMul(R(lines[m].strokeWidth), Half),
     color |-> hex_to_rgb(lines[m].stroke)]

(***************************************************************************)
(* C9.  A single-point ink stroke is rendered as a dot: once the lines are *)
(* drawn, a circle of radius strokeWidth / 2 at its point is on the page   *)
(* (for ink that no eraser stroke follows).                                *)
(***************************************************************************)
C9_SinglePointInkIsDot ==
    (pc \in {"texts", "stickies"}) =>
        \A m \in InkBefore :
            (AfterErasers(m) /\ Len(lines[m].points) = 2) =>
                DotMark(m) \in MarksOn(page_number)

\* the processed positions whose tool tag is "eraser"
TaggedBefore == {k \in 1..(li - 1) : IsTaggedEraser(lines[k])}

\* all vertices of stroke j lie in the region of the stroke k
CoveredBy(j, k) ==
    /\ RegionCapsules(k, r_px) # <<>>
    /\ \A pt \in Vertices(j) : InRegion(pt, k, r_px)

(***************************************************************************)
(* C10.  A line tagged "eraser" is processed as an eraser stroke: it never *)
(* joins the working list (so it is never drawn) and ink before it that    *)
(* lies wholly in its region is gone; a line with any other tool value is  *)
(* processed as ink: as long as no stroke tagged "eraser" follows it, it   *)
(* is in the working list with its original points.                        *)
(***************************************************************************)
C10_EraserTag ==
    InRecord =>
        /\ \A k \in TaggedBefore :
              /\ EntriesOf(k) = {}
              /\ \A j \in 1..(k - 1) :
                    (j \notin TaggedBefore /\ CoveredBy(j, k)) => EntriesOf(j) = {}
        /\ \A m \in 1..(li - 1) :
              (m \notin TaggedBefore /\ \A k \in TaggedBefore : k < m) =>
                  \E e \in EntriesOf(m) : processed_lines[e].segments = <<PointsPx(m)>>

(***************************************************************************)
(* Vocabulary for colours.                                                 *)
(***************************************************************************)
\* a valid #rrggbb value
IsHexColour(c) ==
    /\ Len(c) = 7 /\ c[1] = "#"
    /\ \A k \in 2..7 : HexVal(c[k]) # -1

\* one of the eight named colours, in any case
IsNamedColour(c) == \E n \in 1..Len(NAMED_COLORS) : NAMED_COLORS[n][1] = LowerStr(c)

BlackRgb == <<Zero, Zero, Zero>>

\* an ink line with a colour is about to be processed
AtColouredInk ==
    /\ pc = "lines" /\ li <= Len(lines)
    /\ Has(lines[li], "points") /\ Len(lines[li].points) % 2 = 0
    /\ ~IsFine(li)
    /\ Has(lines[li], "stroke")

(***************************************************************************)
(* C11.  hex_to_rgb never fails: for the colour of every ink line it       *)
(* returns a tuple, and for a colour that is neither a valid #rrggbb       *)
(* value nor a named colour the tuple is black (0, 0, 0).                  *)
(***************************************************************************)
C11_ColourNeverFails ==
    AtColouredInk =>
        /\ hex_to_rgb(lines[li].stroke) # ValueError
        /\ (~IsHexColour(lines[li].stroke) /\ ~IsNamedColour(lines[li].stroke))
              => hex_to_rgb(lines[li].stroke) = BlackRgb

\* the marks of the ink strokes of the record when each is drawn as it is
RECURSIVE IdentityMarks(_)
IdentityMarks(n) ==
    IF n = 0 THEN <<>>
    ELSE IdentityMarks(n - 1)
         \o DrawPolyline(PointsPx(n), hex_to_rgb(lines[n].stroke), lines[n].strokeWidth)

\* the last n marks on the page p
LastMarks(p, n) == SubSeq(page_marks[p], Len(page_marks[p]) - n + 1, Len(page_marks[p]))

\* the lines are drawn and none of them is an eraser stroke
DrawnWithoutEraser ==
    /\ pc = "texts"
    /\ \A k \in 1..Len(lines) : ~IsFine(k)

(***************************************************************************)
(* C12.  Identity: on a page whose lines hold no eraser stroke, every ink  *)
(* stroke is in the working list with exactly its original points as one   *)
(* polyline, and the marks drawn for the lines are, in order, the segments *)
(* and joints of the original strokes: nothing added, removed or split.    *)
(***************************************************************************)
C12_IdentityWithoutEraser ==
    DrawnWithoutEraser =>
        /\ Len(processed_lines) = Len(lines)
        /\ \A m \in 1..Len(lines) : processed_lines[m].segments = <<PointsPx(m)>>
        /\ Len(page_marks[page_number]) >= Len(IdentityMarks(Len(lines)))
        /\ LastMarks(page_number, Len(IdentityMarks(Len(lines)))) = IdentityMarks(Len(lines))
        /\ \A m \in 1..Len(lines) :
              Len(lines[m].points) >= 4 => OriginalLineMarks(m) \subseteq MarksOn(page_number)

\* two strokes of at least two points each are drawn, no eraser among the lines
C12_Witness ==
    /\ DrawnWithoutEraser
    /\ Len(lines) >= 2
    /\ \A m \in 1..Len(lines) : Len(lines[m].points) >= 4
    /\ \E m \in 1..Len(lines) : Len(lines[m].points) >= 6
    /\ LastMarks(page_number, Len(IdentityMarks(Len(lines)))) = IdentityMarks(Len(lines))

\* squared distance of the segment to the centerline of the capsule, computed
\* on the capsule alone (no grid, no bounding boxes)
CenterlineDist2(seg, cap) ==
    dist2_seg_to_seg(seg[1][1], seg[1][2], seg[2][1], seg[2][2], cap.ax, cap.ay, cap.bx, cap.by)

PointCenterlineDist2(pt, cap) == CenterlineDist2(<<pt, pt>>, cap)

\* both ends of the segment are within the radius of the centerline of one capsule
\* (a capsule is convex, so the whole segment is)
WhollyInOneCapsule(seg) ==
    \E c \in 1..Len(NextCapsules) :
        /\ RLe(PointCenterlineDist2(seg[1], NextCapsules[c]), Sq(NextCapsules[c].r))
        /\ RLe(PointCenterlineDist2(seg[2], NextCapsules[c]), Sq(NextCapsules[c].r))

(***************************************************************************)
(* C13.  Full containment: a segment that lies wholly within the erased    *)
(* region of one capsule yields the empty list.                            *)
(***************************************************************************)
C13_FullContainment ==
    AtEraser =>
        \A seg \in WorkingSegments :
            WhollyInOneCapsule(seg) => SplitNext(seg[1], seg[2]) = <<>>

C13_Witness ==
    /\ AtEraser
    /\ \E seg \in WorkingSegments :
          /\ WhollyInOneCapsule(seg)
          /\ seg[1] # seg[2]
          /\ SplitNext(seg[1], seg[2]) = <<>>

\* the segment is farther from every capsule's centerline than its radius
ClearOfAllCapsules(seg) ==
    \A c \in 1..Len(NextCapsules) :
        RLt(Sq(NextCapsules[c].r), CenterlineDist2(seg, NextCapsules[c]))

(***************************************************************************)
(* C14.  Full exclusion: a segment whose distance to every capsule's       *)
(* centerline exceeds the capsule's radius is returned unchanged, as the   *)
(* single piece (p0, p1).                                                  *)
(***************************************************************************)
C14_FullExclusion ==
    AtEraser =>
        \A seg \in WorkingSegments :
            ClearOfAllCapsules(seg) => SplitNext(seg[1], seg[2]) = <<seg>>

\* a segment less than two radii away from a capsule, and clear of it
C14_Witness ==
    /\ AtEraser
    /\ \E seg \in WorkingSegments :
          /\ NextCapsules # <<>>
          /\ ClearOfAllCapsules(seg)
          /\ \E c \in 1..Len(NextCapsules) :
                RLt(CenterlineDist2(seg, NextCapsules[c]), RMul(R(4), Sq(NextCapsules[c].r)))
          /\ SplitNext(seg[1], seg[2]) = <<seg>>

RecordData(a) == Get(annotations[a], "data", EmptyDict)

\* all marks record a puts on its page when burnt alone: lines, texts, sticky notes
RecordMarks(a) ==
    MarksOf(RecordLineMarks(a))
    \cup MarksOf(DrawTextMarks(Get(RecordData(a), "texts", <<>>), doc[RecordPage(a)]))
    \cup MarksOf(DrawStickyMarks(Get(RecordData(a), "stickyNotes", <<>>), doc[RecordPage(a)]))

\* the records that are burnt on page p
RecordsOn(p) == {a \in 1..Len(annotations) : RecordOnPage(a) /\ RecordPage(a) = p}

\* the loop over the records is at a record whose page number is out of range
AtOutOfRange == pc = "record" /\ ai <= Len(annotations) /\ ~RecordOnPage(ai)

(***************************************************************************)
(* C15.  A record whose page number is below 1 or above the page count is  *)
(* skipped without raising: the step from it draws nothing, raises nothing *)
(* and moves on to the next record; and a call that returns has saved the  *)
(* output, on which every mark stems from a record with a page in range.   *)
(***************************************************************************)
C15_OutOfRangeSkipped ==
    /\ [][AtOutOfRange =>
            /\ page_marks' = page_marks
            /\ exc' = "none" /\ pc' = "record" /\ ai' = ai + 1
            /\ output' = output]_vars
    /\ [](pc = "done" =>
            /\ output.written
            /\ \A p \in 1..Len(doc) :
                  MarksOf(output.pages[p]) \subseteq UNION {RecordMarks(a) : a \in RecordsOn(p)})

\* a call with a record out of range and a record that is drawn has returned
C15_Witness ==
    /\ pc = "done" /\ output.written
    /\ \E a \in 1..Len(annotations) : ~RecordOnPage(a) /\ RecordLines(a) # <<>>
    /\ \E b \in 1..Len(annotations) : RecordOnPage(b) /\ output.pages[RecordPage(b)] # <<>>

\* the loop over the annotation files is at a file that is not valid JSON
AtUnparsable ==
    /\ pc = "load"
    /\ request.fi <= Len(request.files)
    /\ annotation_file.json.kind = "invalid"

\* the records of the files that can be loaded, in the order of the files
RECURSIVE RecordsOfFiles(_)
RecordsOfFiles(fs) ==
    IF fs = <<>> THEN <<>>
    ELSE (IF LoadRaises(Head(fs)) = "none" THEN <<LoadedRecord(Head(fs))>> ELSE <<>>)
         \o RecordsOfFiles(Tail(fs))

(***************************************************************************)
(* C16.  In both endpoints an annotation file that is not valid JSON is    *)
(* skipped: the step from it adds no record, raises nothing, gives no      *)
(* response and moves on to the next file; once the files are read the     *)
(* burn works on the records of exactly the loadable files, it is called   *)
(* whenever there is one, and a failed request is a burn that raised.      *)
(***************************************************************************)
C16_UnparsableSkipped ==
    /\ [][AtUnparsable =>
            /\ annotations' = annotations
            /\ exc' = "none" /\ pc' = "load"
            /\ request' = [request EXCEPT !.fi = @ + 1]]_vars
    /\ [](pc # "load" =>
            /\ annotations = RecordsOfFiles(request.files)
            /\ annotations # <<>> /\ pc = "responded"
                  => request.response.file \in {"annotated", "archive", "none"}
            /\ pc = "responded" /\ request.response.status = 500
                  => exc \in {"KeyError", "IndexError", "ValueError"})

\* a request with an invalid file and a loadable one was answered with the
\* burnt document
C16_Witness ==
    /\ pc = "responded"
    /\ request.response.status = 200
    /\ request.response.file \in {"annotated", "archive"}
    /\ \E k \in 1..Len(request.files) : request.files[k].json.kind = "invalid"
    /\ output.written
    /\ \E p \in 1..Len(doc) : output.pages[p] # <<>>

\* the texts and sticky notes listed by the records of page p: kind, position in
\* page space (the percentage of the page's width and height), content
ListedNotes(p) ==
    UNION {
        {[kind |-> "textbox",
          at |-> <<RDiv(RMul(R(t.x), doc[p].width), R(100)),
                   RDiv(RMul(R(t.y), doc[p].height), R(100))>>,
          content |-> t.text]
            : t \in MarksOf(Get(RecordData(a), "texts", <<>>))}
        \cup
        {[kind |-> "text_annot",
          at |-> <<RDiv(RMul(R(n.x), doc[p].width), R(100)),
                   RDiv(RMul(R(n.y), doc[p].height), R(100))>>,
          content |-> n.text]
            : n \in MarksOf(Get(RecordData(a), "stickyNotes", <<>>))}
        : a \in RecordsOn(p)}

\* the text boxes and sticky notes on page p of the output
BurntNotes(p) ==
    {[kind |-> m.kind,
      at |-> IF m.kind = "textbox" THEN <<m.rect[1], m.rect[2]>> ELSE m.p,
      content |-> m.content]
        : m \in {n \in MarksOf(output.pages[p]) : n.kind \in {"textbox", "text_annot"}}}

\* record a has a fine-eraser stroke that passes over one of its texts or notes
EraserOverNote(a) ==
    \E k \in 1..Len(RecordLines(a)) :
        /\ IsFineEraser(RecordLines(a)[k])
        /\ Len(RecordLines(a)[k].points) >= 4
        /\ \E t \in MarksOf(Get(RecordData(a), "texts", <<>>))
                    \cup MarksOf(Get(RecordData(a), "stickyNotes", <<>>)) :
              \E c \in MarksOf(build_capsules(
                          ConvertPoints(RecordLines(a)[k].points, doc[RecordPage(a)]),
                          RadiusPx(eraser_width_percent(RecordLines(a)),
                                   doc[RecordPage(a)].width))) :
                  RLe(PointCenterlineDist2(
                          percentage_to_pdf_coords(R(t.x), R(t.y), doc[RecordPage(a)].width,
                                                   doc[RecordPage(a)].height), c),
                      Sq(c.r))

(***************************************************************************)
(* C17.  Texts and sticky notes are never erased: on every page of the     *)
(* output the text boxes and sticky notes are exactly those the records of *)
(* that page list, at the listed percentage of the page's width and        *)
(* height, whatever eraser strokes the records hold.                       *)
(***************************************************************************)
C17_NotesNeverErased ==
    pc = "done" => \A p \in 1..Len(doc) : BurntNotes(p) = ListedNotes(p)

\* a burn is over whose eraser passed over a text that is on the output
C17_Witness ==
    /\ pc = "done"
    /\ \E a \in 1..Len(annotations) :
          /\ RecordOnPage(a) /\ EraserOverNote(a)
          /\ BurntNotes(RecordPage(a)) # {}

\* the fine-eraser strokes of the current record and the sum of their widths
FineStrokes == {k \in 1..Len(lines) : IsFine(k)}

RECURSIVE WidthSum(_)
WidthSum(ks) ==
    IF ks = {} THEN 0
    ELSE Get(lines[CHOOSE k \in ks : TRUE], "strokeWidth", 10)
         + WidthSum(ks \ {CHOOSE k \in ks : TRUE})

\* average / 600 * 100 * 0.7 as one fraction: 7 * sum / (60 * count)
ScaledAverage == Norm(7 * WidthSum(FineStrokes), 60 * Cardinality(FineStrokes))

\* clamp(ScaledAverage, 0.8, 4.0) with erasers, 1.5 without
PolicyPercent ==
    IF FineStrokes = {} THEN <<3, 2>>
    ELSE IF RLt(ScaledAverage, <<4, 5>>) THEN <<4, 5>>
    ELSE IF RLt(<<4, 1>>, ScaledAverage) THEN <<4, 1>>
    ELSE ScaledAverage

(***************************************************************************)
(* C18.  Once a record is begun, the eraser radius is half of              *)
(* clamp(average strokeWidth / 600 * 100 * 0.7, 0.8, 4.0) percent of the   *)
(* page width when the record has fine-eraser strokes and half of 1.5      *)
(* percent otherwise; it lies between 0.4 and 2.0 percent of the page      *)
(* width and is never zero, whatever the strokeWidth values.               *)
(***************************************************************************)
C18_RadiusClamped ==
    InRecord =>
        /\ r_px = RDiv(RMul(PolicyPercent, page.width), R(200))
        /\ RLe(RDiv(RMul(<<2, 5>>, page.width), R(100)), r_px)
        /\ RLe(r_px, RDiv(RMul(R(2), page.width), R(100)))
        /\ r_px # Zero

\* a record whose fine-eraser strokes have a negative width is being burnt with
\* the smallest radius
C18_Witness ==
    /\ InRecord
    /\ \E k \in FineStrokes : Has(lines[k], "strokeWidth") /\ lines[k].strokeWidth < 0
    /\ r_px = RDiv(RMul(<<2, 5>>, page.width), R(100))

(***************************************************************************)
(* C19.  The records are burnt independently and in any order: when the    *)
(* call is over, whether the output is written depends only on which       *)
(* records the list holds, and the set of marks on each page of the output *)
(* is the union, over the records of that page, of the marks each record   *)
(* puts there when burnt alone, which no permutation of the list changes.  *)
(***************************************************************************)
C19_RecordsIndependent ==
    CallOver =>
        /\ output.written <=> ~\E a \in 1..Len(annotations) : RecordOnPage(a) /\ RecordFails(a)
        /\ output.written =>
              \A p \in 1..Len(doc) :
                  MarksOf(output.pages[p]) = UNION {RecordMarks(a) : a \in RecordsOn(p)}

\* two different records of one page were burnt, the second after a record that
\* left an erased stroke in its working list
C19_Witness ==
    /\ pc = "done"
    /\ Len(annotations) = 2
    /\ RecordsOn(1) = {1, 2}
    /\ annotations[1] # annotations[2]
    /\ \E k \in 1..Len(RecordLines(1)) : IsFineEraser(RecordLines(1)[k])
    /\ RecordMarks(1) # {} /\ RecordMarks(2) # {}
    /\ ~(RecordMarks(2) \subseteq RecordMarks(1))

\* what the records from position a on burn on page p, one after the other, each
\* on its own: lines, then texts, then sticky notes
RECURSIVE AloneFrom(_, _)
AloneFrom(a, p) ==
    IF a > Len(annotations) THEN <<>>
    ELSE (IF RecordOnPage(a) /\ RecordPage(a) = p
          THEN RecordLineMarks(a)
               \o DrawTextMarks(Get(RecordData(a), "texts", <<>>), doc[p])
               \o DrawStickyMarks(Get(RecordData(a), "stickyNotes", <<>>), doc[p])
          ELSE <<>>)
         \o AloneFrom(a + 1, p)

(***************************************************************************)
(* C20.  Two concurrent burns on the shared service object do not          *)
(* interfere: under every interleaving a call that is over has ended the   *)
(* way it ends alone, raising exactly when one of its own records raises,  *)
(* and a call that returned has written, page by page, the marks its own   *)
(* records burn when the call runs alone; the object is never written.     *)
(***************************************************************************)
C20_NoInterference ==
    /\ service = Singleton
    /\ CallOver =>
          (pc = "raised" <=> \E a \in 1..Len(annotations) : RecordOnPage(a) /\ RecordFails(a))
    /\ pc = "raised" => ~output.written
    /\ pc = "done" =>
          /\ output.written
          /\ \A p \in 1..Len(doc) : output.pages[p] = AloneFrom(1, p)

\* a call has returned with marks on its output while the call for another
\* document is in the middle of a record, with another eraser radius and ink on
\* its working list
C20_Witness ==
    /\ pc = "done"
    /\ \E p \in 1..Len(doc) : output.pages[p] # <<>>
    /\ other # NoCall
    /\ other.pc \in {"lines", "texts"}
    /\ other.doc # doc
    /\ other.processed_lines # <<>>
    /\ other.r_px # r_px

(***************************************************************************)
(* C21.  The document opened by the burn is closed on every path: when the *)
(* call is over, after the save or after an exception, doc is closed.      *)
(***************************************************************************)
C21_ClosedOnEveryPath == CallOver => is_closed

\* (a - o) x (b - o)
Cross(o, a, b) ==
    RSub(RMul(RSub(a[1], o[1]), RSub(b[2], o[2])), RMul(RSub(a[2], o[2]), RSub(b[1], o[1])))

Sign(x) == IF x[1] < 0 THEN -1 ELSE IF x[1] > 0 THEN 1 ELSE 0

\* the squared distance of the point p to the segment ab: to its foot on the
\* line when the foot is on the segment, to the nearer end otherwise
PointSegDist2(p, a, b) ==
    IF a = b THEN PointDist2(p, a)
    ELSE IF RLe(dot(RSub(p[1], a[1]), RSub(p[2], a[2]), RSub(b[1], a[1]), RSub(b[2], a[2])), Zero)
    THEN PointDist2(p, a)
    ELSE IF RLe(dot(RSub(p[1], b[1]), RSub(p[2], b[2]), RSub(a[1], b[1]), RSub(a[2], b[2])), Zero)
    THEN PointDist2(p, b)
    ELSE RDiv(Sq(Cross(a, b, p)), PointDist2(a, b))

\* ab and cd cross at an inner point of both
CrossProperly(a, b, c, d) ==
    /\ Sign(Cross(a, b, c)) * Sign(Cross(a, b, d)) = -1
    /\ Sign(Cross(c, d, a)) * Sign(Cross(c, d, b)) = -1

\* the minimum squared Euclidean distance of the segments ab and cd: zero when
\* they cross, else attained at an end of one of them
TrueDist2(a, b, c, d) ==
    IF CrossProperly(a, b, c, d) THEN Zero
    ELSE RMin(RMin(PointSegDist2(a, c, d), PointSegDist2(b, c, d)),
              RMin(PointSegDist2(c, a, b), PointSegDist2(d, a, b)))

CapA(cap) == <<cap.ax, cap.ay>>
CapB(cap) == <<cap.bx, cap.by>>

(***************************************************************************)
(* C22.  dist2_seg_to_seg returns the true minimum squared distance of AB  *)
(* and CD and never divides by zero: for every segment of the working list *)
(* (and each of its ends as a segment of zero length) and every capsule    *)
(* centerline of the eraser stroke that is processed next, also a          *)
(* centerline of two identical points.                                     *)
(***************************************************************************)
C22_TrueSegmentDistance ==
    AtEraser =>
        \A seg \in WorkingSegments : \A c \in 1..Len(NextCapsules) :
            /\ CenterlineDist2(seg, NextCapsules[c]) # DivZero
            /\ CenterlineDist2(seg, NextCapsules[c])
                  = TrueDist2(seg[1], seg[2], CapA(NextCapsules[c]), CapB(NextCapsules[c]))
            /\ PointCenterlineDist2(seg[1], NextCapsules[c])
                  = PointSegDist2(seg[1], CapA(NextCapsules[c]), CapB(NextCapsules[c]))
            /\ PointCenterlineDist2(seg[2], NextCapsules[c])
                  = PointSegDist2(seg[2], CapA(NextCapsules[c]), CapB(NextCapsules[c]))

\* the queries an eraser pass makes for a working segment: the segment and its ends
QueriesOf(seg) == {seg, <<seg[1], seg[1]>>, <<seg[2], seg[2]>>}

QueryBox(q) == QueryAabb(q[1][1], q[1][2], q[2][1], q[2][2], NextCapsules)

\* the exhaustive test: some capsule is within its radius of q
HitsExhaustiveOf(q, capsules) ==
    \E c \in 1..Len(capsules) :
        RLe(seg_capsule_dist2(q[1][1], q[1][2], q[2][1], q[2][2], capsules[c]), Zero)

HitsExhaustive(q) == HitsExhaustiveOf(q, NextCapsules)

InRange(i, grid) == i[1] \in 0..(grid.nx - 1) /\ i[2] \in 0..(grid.ny - 1)

\* the grid answers the query q with the AABB box as the test against all of
\* capsules does
GridAgrees(q, box, capsules, grid) ==
    /\ \A c \in 1..Len(capsules) :
          aabb_overlap(box, capsules[c].aabb) => c \in MarksOf(candidates_for_aabb(grid, box))
    /\ InRange(ixiy(grid, box[1], box[2]), grid)
    /\ InRange(ixiy(grid, box[3], box[4]), grid)
    /\ seg_hits_any_capsule(q[1][1], q[1][2], q[2][1], q[2][2], capsules, grid)
          <=> HitsExhaustiveOf(q, capsules)
    /\ RLe(seg_distance2_to_eraser(q[1][1], q[1][2], q[2][1], q[2][2], capsules, grid), Zero)
          <=> HitsExhaustiveOf(q, capsules)

\* the grid agrees on every query of the pass over the working list
GridAgreesOnAll(capsules, grid) ==
    \A seg \in WorkingSegments : \A q \in QueriesOf(seg) :
        GridAgrees(q, QueryAabb(q[1][1], q[1][2], q[2][1], q[2][2], capsules), capsules, grid)

(***************************************************************************)
(* C23.  The grid is a pure optimization: for every query of an eraser     *)
(* pass, also with coordinates outside the page, the candidates hold every *)
(* capsule whose inflated AABB overlaps the query AABB, the cell indices   *)
(* are in range, and seg_hits_any_capsule and seg_distance2_to_eraser      *)
(* answer inside / outside as the test against all capsules does.          *)
(***************************************************************************)
C23_GridPureOptimization ==
    AtEraser => GridAgreesOnAll(NextCapsules, NextGrid)

\* an eraser pass is due where the grid leaves a capsule out of the candidates of
\* a segment that another capsule of the stroke hits
C23_Witness ==
    /\ AtEraser
    /\ \E seg \in WorkingSegments :
          /\ HitsExhaustive(seg)
          /\ \E c \in 1..Len(NextCapsules) :
                c \notin MarksOf(candidates_for_aabb(NextGrid, QueryBox(seg)))

\* the probes of bisect_boundary(a, b) against the capsules
ProbesWith(a, b, capsules, grid) ==
    IF inside_point(a, capsules, grid) /\ ~inside_point(b, capsules, grid)
    THEN BisectProbes(MaxIter, Zero, One, b, a, capsules, grid)
    ELSE BisectProbes(MaxIter, Zero, One, a, b, capsules, grid)

BisectionsNext(seg) == SplitBisections(seg[1], seg[2], NextCapsules, NextGrid)

\* the segment touches the eraser without entering it: its distance to the
\* nearest centerline is exactly the radius
Grazes(seg) ==
    seg_distance2_to_eraser(seg[1][1], seg[1][2], seg[2][1], seg[2][2],
                            NextCapsules, NextGrid) = Zero

\* at most two bisections, each of exactly max_iter probes
BisectionsBounded(bisections, capsules, grid) ==
    /\ Len(bisections) <= 2
    /\ \A k \in 1..Len(bisections) :
          Len(ProbesWith(bisections[k][1], bisections[k][2], capsules, grid)) = MaxIter

\* every split of the pass over the working list is bounded
SplitsBounded(capsules, grid) ==
    \A seg \in WorkingSegments :
        /\ BisectionsBounded(SplitBisections(seg[1], seg[2], capsules, grid), capsules, grid)
        /\ Len(split_segment_against_eraser(seg[1], seg[2], capsules, grid, MaxIter)) <= 2

(***************************************************************************)
(* C24.  split_segment_against_eraser terminates: for every segment of the *)
(* working list, also one that touches a capsule tangentially, a split     *)
(* runs at most two bisections and each of them runs exactly max_iter      *)
(* iterations, whatever the inside tests answer.                           *)
(***************************************************************************)
C24_SplitTerminates ==
    AtEraser => SplitsBounded(NextCapsules, NextGrid)

\* a segment that grazes the capsule is about to be split with two bisections
C24_Witness ==
    /\ AtEraser
    /\ \E seg \in WorkingSegments : Grazes(seg) /\ Len(BisectionsNext(seg)) = 2

\* q lies on the segment from p0 to p1
OnSegment(q, p0, p1) ==
    /\ Cross(p0, p1, q) = Zero
    /\ RLe(Zero, dot(RSub(q[1], p0[1]), RSub(q[2], p0[2]), RSub(p1[1], p0[1]), RSub(p1[2], p0[2])))
    /\ RLe(dot(RSub(q[1], p0[1]), RSub(q[2], p0[2]), RSub(p1[1], p0[1]), RSub(p1[2], p0[2])),
           PointDist2(p0, p1))

\* one piece, from p0 to a point of the segment when p1 is inside, from a point
\* of the segment to p1 when p0 is inside
OnePieceOriented(pieces, seg, inside0) ==
    /\ Len(pieces) = 1
    /\ ~inside0 =>
          /\ pieces[1][1] = seg[1]
          /\ OnSegment(pieces[1][2], seg[1], seg[2])
    /\ inside0 =>
          /\ pieces[1][2] = seg[2]
          /\ OnSegment(pieces[1][1], seg[1], seg[2])

(***************************************************************************)
(* C25.  With exactly one end of a segment inside the eraser the split     *)
(* returns exactly one piece, in the orientation of the input: from p0 to  *)
(* a boundary point when p1 is inside, from a boundary point to p1 when p0 *)
(* is inside, and the boundary point lies on the segment between p0 and p1.*)
(***************************************************************************)
C25_OnePieceOriented ==
    AtEraser =>
        \A seg \in WorkingSegments :
            OneEndInside(seg[1], seg[2]) =>
                OnePieceOriented(SplitNext(seg[1], seg[2]), seg, InsideNext(seg[1]))

\* an eraser pass is due on a segment whose start is inside and whose end is
\* outside, and on one whose end is inside
C25_Witness ==
    /\ AtEraser
    /\ \E seg \in WorkingSegments : InsideNext(seg[1]) /\ ~InsideNext(seg[2])
    /\ \E seg \in WorkingSegments : ~InsideNext(seg[1]) /\ InsideNext(seg[2])


\* the polylines of the working list
WorkingPolylines ==
    {processed_lines[t[1]].segments[t[2]]
        : t \in {u \in (1..Len(processed_lines)) \X (1..4) :
                    u[2] <= Len(processed_lines[u[1]].segments)}}

FilterNext(poly) == filter_line_by_eraser_px(poly, NextCapsules, NextGrid, MaxIter)

\* the segments <<p0, p1>> of one flat polyline
SegmentsOf(poly) ==
    {<<<<poly[2 * v - 1], poly[2 * v]>>, <<poly[2 * v + 1], poly[2 * v + 2]>>>>
        : v \in 1..((Len(poly) \div 2) - 1)}

\* no segment of the polyline is within the radius of a capsule's centerline
Untouched(poly) ==
    \A seg \in SegmentsOf(poly) : \A c \in 1..Len(NextCapsules) :
        RLt(Sq(NextCapsules[c].r),
            TrueDist2(seg[1], seg[2], CapA(NextCapsules[c]), CapB(NextCapsules[c])))

(***************************************************************************)
(* C26.  filter_line_by_eraser_px rebuilds polylines from the kept pieces: *)
(* a polyline of the working list none of whose segments touches the       *)
(* eraser stroke processed next comes back as exactly one polyline with    *)
(* the same points in the same order, and every polyline the function      *)
(* returns has at least two points (four coordinates).                     *)
(***************************************************************************)
C26_RebuiltPolylines ==
    AtEraser =>
        \A poly \in WorkingPolylines :
            /\ (Len(poly) >= 4 /\ Untouched(poly)) => FilterNext(poly) = <<poly>>
            /\ \A k \in 1..Len(FilterNext(poly)) : Len(FilterNext(poly)[k]) >= 4


\* the polylines of the ink stroke j that survive the eraser strokes between j
\* and n, each applied on its own to what the ones before it left
RECURSIVE SurvivingFrom(_, _, _)
SurvivingFrom(segments, k, n) ==
    IF k >= n THEN segments
    ELSE IF IsFine(k)
    THEN SurvivingFrom(FilterSegments(segments, RegionCapsules(k, r_px),
                                      GridOf(RegionCapsules(k, r_px), r_px, page), MaxIter),
                       k + 1, n)
    ELSE SurvivingFrom(segments, k + 1, n)

SurvivingOf(j) == SurvivingFrom(<<PointsPx(j)>>, j + 1, li)

\* the source positions of the entries of a working list
SourcesOf(processed) == {processed[e].src : e \in 1..Len(processed)}

\* the working list is what the claim says of the strokes before li
WorkingListExact ==
    /\ \A e \in 1..Len(processed_lines) :
          /\ processed_lines[e].src \in InkBefore
          /\ processed_lines[e].color = hex_to_rgb(lines[processed_lines[e].src].stroke)
          /\ processed_lines[e].width = lines[processed_lines[e].src].strokeWidth
          /\ processed_lines[e].segments = SurvivingOf(processed_lines[e].src)
          /\ processed_lines[e].segments # <<>>
    /\ \A e, f \in 1..Len(processed_lines) :
          e < f => processed_lines[e].src < processed_lines[f].src
    /\ \A j \in InkBefore : SurvivingOf(j) # <<>> => j \in SourcesOf(processed_lines)

\* one stroke of the record is processed
StrokeStep == pc = "lines" /\ pc' = "lines" /\ li' = li + 1

(***************************************************************************)
(* C27.  After any sequence of ink and eraser strokes the working list     *)
(* holds, in drawing order, exactly the ink strokes that still have a      *)
(* surviving polyline, each with the colour and width of its source        *)
(* stroke; a stroke that left the list never reappears, and an eraser      *)
(* stroke never adds an entry.                                             *)
(***************************************************************************)
C27_WorkingListExact ==
    /\ [](pc = "lines" => WorkingListExact)
    /\ [][StrokeStep =>
            /\ SourcesOf(processed_lines') \subseteq SourcesOf(processed_lines) \cup {li}
            /\ IsFine(li) => Len(processed_lines') <= Len(processed_lines)]_vars

\* ink and eraser strokes were processed: an ink stroke of two or more points is
\* gone from the list, another is still on it, cut by an eraser stroke
C27_Witness ==
    /\ pc = "lines"
    /\ Cardinality(InkBefore) >= 2 /\ FineBefore # {}
    /\ \E j \in InkBefore : Len(lines[j].points) >= 4 /\ j \notin SourcesOf(processed_lines)
    /\ \E e \in 1..Len(processed_lines) :
          processed_lines[e].segments # <<PointsPx(processed_lines[e].src)>>


\* the points of the segment at the eighths of its length
EighthsOf(seg) ==
    {Lerp(seg[1], seg[2], <<k, 8>>) : k \in 0..8}

\* the point is farther from every capsule's centerline than the capsule's radius
Uncovered(pt) ==
    \A c \in 1..Len(NextCapsules) :
        RLt(Sq(NextCapsules[c].r),
            PointSegDist2(pt, CapA(NextCapsules[c]), CapB(NextCapsules[c])))

\* the point lies on one of the pieces
OnPieces(pt, pieces) ==
    \E k \in 1..Len(pieces) : OnSegment(pt, pieces[k][1], pieces[k][2])

(***************************************************************************)
(* C28.  Erasure removes only covered ink: every point of a segment of the *)
(* working list that is farther from each capsule's centerline than that   *)
(* capsule's radius lies on one of the pieces split_segment_against_eraser *)
(* returns for the eraser stroke processed next, also when the two ends of *)
(* the segment are inside different capsules of that stroke.               *)
(***************************************************************************)
C28_OnlyCoveredRemoved ==
    AtEraser =>
        \A seg \in WorkingSegments :
            \A pt \in EighthsOf(seg) :
                Uncovered(pt) => OnPieces(pt, SplitNext(seg[1], seg[2]))


\* how far q lies along the segment from its first end (scaled by its length)
Along(q, seg) ==
    dot(RSub(q[1], seg[1][1]), RSub(q[2], seg[1][2]),
        RSub(seg[2][1], seg[1][1]), RSub(seg[2][2], seg[1][2]))

\* the pieces lie on the segment, each runs from p0 towards p1, and a later piece
\* starts no nearer to p0 than the one before it ends
PiecesOrdered(pieces, seg) ==
    /\ \A k \in 1..Len(pieces) :
          /\ OnSegment(pieces[k][1], seg[1], seg[2])
          /\ OnSegment(pieces[k][2], seg[1], seg[2])
          /\ RLe(Along(pieces[k][1], seg), Along(pieces[k][2], seg))
    /\ \A k, m \in 1..Len(pieces) :
          k < m => RLe(Along(pieces[k][2], seg), Along(pieces[m][1], seg))

(***************************************************************************)
(* C29.  The pieces split_segment_against_eraser returns for a segment of  *)
(* the working list lie on that segment, are ordered from p0 to p1 and do  *)
(* not overlap (in the pass-through case enter is no farther from p0 than  *)
(* exit), so no part of a stroke is in the surviving polylines twice.      *)
(***************************************************************************)
C29_PiecesDisjoint ==
    AtEraser =>
        \A seg \in WorkingSegments : PiecesOrdered(SplitNext(seg[1], seg[2]), seg)


(***************************************************************************)
(* C30.  The output document is written only after every annotation record *)
(* has been processed: while records are left, and when processing a       *)
(* record has raised, no file is written at output_path; a written file    *)
(* holds the marks of all records.                                         *)
(***************************************************************************)
C30_SavedAfterAllRecords ==
    /\ output.written =>
          /\ pc = "done"
          /\ ai > Len(annotations)
          /\ output.pages = page_marks
    /\ (pc = "raised" \/ ai <= Len(annotations)) => ~output.written

\* the second record raised after the first had put its marks on the page
C30_Witness ==
    /\ pc = "raised"
    /\ ai = 2
    /\ RecordOnPage(1) /\ ~RecordFails(1)
    /\ page_marks[RecordPage(1)] # <<>>
    /\ ~output.written

=============================================================================
